---- MODULE Spec2Model ----
(***************************************************************************)
(* PostPro schedule store (src/src/lib/store.ts): the zustand store that   *)
(* holds episodes, milestones and the milestone type catalog, the          *)
(* dependency checker, the Move Transaction and the command front end.     *)
(*                                                                         *)
(* Dates are whole numbers (one unit = one day); an optional value is the  *)
(* empty sequence (undefined / null) or a one-element sequence.  A text is *)
(* a sequence of one-character strings.                                    *)
(***************************************************************************)
EXTENDS Integers, Sequences, FiniteSets, TLC

VARIABLES
    currentProject,   \* <<>> (null) or <<project id>>
    episodes,         \* Episode[]
    milestones,       \* Milestone[]
    milestoneTypes,   \* MilestoneType[]
    ui,               \* selectedEpisodeId, dateRange, isLoading, isSaving, error, showOnboarding
    now,              \* the clock read by new Date()
    uuids,            \* number of ids crypto.randomUUID() has handed out
    tasks,            \* async calls suspended at an await
    last              \* the call that ran in the last step: its arguments and its result

vars == <<currentProject, episodes, milestones, milestoneTypes, ui, now, uuids, tasks, last>>

(***************************************************************************)
(* Bounds of the model                                                     *)
(***************************************************************************)
MaxTargetIndex == 1  \* direct calls target the first MaxTargetIndex milestones of the list
MaxUuids == 1        \* milestones added through createMilestone
MaxTasks == 1        \* async calls suspended at the same time
MaxReferenceDay == 6 \* the last reference date the date parser is applied with

\* the values new Date() takes
Clocks == {0}

(***************************************************************************)
(* Generic helpers                                                         *)
(***************************************************************************)
None == <<>>
Some(v) == <<v>>

\* Array.prototype.find / findIndex, given for each position whether its element
\* satisfies the predicate: the first that does (1-based), 0 when there is none
FindIndex(hits) ==
    IF \A i \in DOMAIN hits : ~hits[i] THEN 0
    ELSE CHOOSE i \in DOMAIN hits : hits[i] /\ \A j \in 1..(i - 1) : ~hits[j]

\* Array.prototype.includes
Includes(s, v) == \E i \in 1..Len(s) : s[i] = v

\* String.prototype.includes on sequences of characters
IncludesSub(s, sub) ==
    \E i \in 0..(Len(s) - Len(sub)) : \A j \in 1..Len(sub) : s[i + j] = sub[j]

\* decimal digits of a natural number: `${n}`
RECURSIVE Digits(_)
Digits(n) == IF n < 10 THEN <<n>> ELSE Append(Digits(n \div 10), n % 10)
Chars(n) == [i \in 1..Len(Digits(n)) |-> ToString(Digits(n)[i])]

\* date-fns
addDays(date, amount) == date + amount
addWeeks(date, amount) == date + 7 * amount
isAfter_strictlyOrEqual(date, dateToCompare) == date >= dateToCompare
isAfter(date, dateToCompare) == date > dateToCompare
isBefore_strictlyOrEqual(date, dateToCompare) == date <= dateToCompare
isBefore(date, dateToCompare) == date < dateToCompare

(***************************************************************************)
(* Texts: a string is a sequence of one-character strings                  *)
(***************************************************************************)
LowerLetters == <<"a","b","c","d","e","f","g","h","i","j","k","l","m",
                  "n","o","p","q","r","s","t","u","v","w","x","y","z">>
UpperLetters == <<"A","B","C","D","E","F","G","H","I","J","K","L","M",
                  "N","O","P","Q","R","S","T","U","V","W","X","Y","Z">>
DigitChars == {"0","1","2","3","4","5","6","7","8","9"}
WordChars == DigitChars \cup {"_"} \cup {LowerLetters[i] : i \in 1..26}
                 \cup {UpperLetters[i] : i \in 1..26}
SpaceChars == {" "}

toLowerChar(c) ==
    IF \E i \in 1..26 : UpperLetters[i] = c
    THEN LowerLetters[CHOOSE i \in 1..26 : UpperLetters[i] = c] ELSE c
toUpperChar(c) ==
    IF \E i \in 1..26 : LowerLetters[i] = c
    THEN UpperLetters[CHOOSE i \in 1..26 : LowerLetters[i] = c] ELSE c

\* String.prototype.toLowerCase / toUpperCase / trim
toLowerCase(s) == [i \in 1..Len(s) |-> toLowerChar(s[i])]
toUpperCase(s) == [i \in 1..Len(s) |-> toUpperChar(s[i])]
trim(s) ==
    LET kept == {i \in 1..Len(s) : s[i] \notin SpaceChars} IN
    IF kept = {} THEN <<>>
    ELSE SubSeq(s, CHOOSE i \in kept : \A j \in kept : i <= j,
                   CHOOSE i \in kept : \A j \in kept : i >= j)

\* the string a sequence of characters spells
RECURSIVE Str(_)
Str(s) == IF s = <<>> THEN "" ELSE Head(s) \o Str(Tail(s))

\* parseInt of a sequence of digits
RECURSIVE parseInt(_)
parseInt(s) ==
    IF s = <<>> THEN 0
    ELSE 10 * parseInt(SubSeq(s, 1, Len(s) - 1))
         + (CHOOSE n \in 0..9 : ToString(n) = s[Len(s)])

(***************************************************************************)
(* Regular expressions (String.prototype.match without the g flag).        *)
(* Match is a backtracking matcher: it matches the patterns of todo one    *)
(* after the other from pos and yields the first way to do so in the order *)
(* the engine tries them (greedy quantifiers, left alternative first), as  *)
(* <<[pos, caps]>>, or <<>> when there is none                             *)
(***************************************************************************)
RLit(chars) == [k |-> "lit", s |-> chars]
RSet(cs) == [k |-> "set", cs |-> cs]
RAny == [k |-> "any"]
RSeq(a, b) == [k |-> "seq", a |-> a, b |-> b]
RAlt(a, b) == [k |-> "alt", a |-> a, b |-> b]
ROpt(a) == [k |-> "opt", a |-> a]
RPlus(a) == [k |-> "plus", a |-> a]
RStar(a) == ROpt(RPlus(a))
RCap(i, a) == [k |-> "cap", i |-> i, a |-> a]
RCapEnd(i, start) == [k |-> "capEnd", i |-> i, start |-> start]

RECURSIVE RCat(_)
RCat(res) == IF Len(res) = 1 THEN res[1] ELSE RSeq(res[1], RCat(Tail(res)))

NoCaptures == [i \in 1..3 |-> <<>>]

\* a character class (a set or the dot) accepts c
InClass(c, class) == class.k = "any" \/ c \in class.cs

\* the end of the longest run of characters of the class from pos
RunEnd(class, s, pos) ==
    CHOOSE j \in pos..(Len(s) + 1) :
        /\ j = Len(s) + 1 \/ ~InClass(s[j], class)
        /\ \A i \in pos..(j - 1) : InClass(s[i], class)

RECURSIVE Match(_, _, _, _)
RECURSIVE Repeat(_, _, _, _, _)
Match(todo, s, pos, caps) ==
    IF todo = <<>> THEN << [pos |-> pos, caps |-> caps] >>
    ELSE LET re == todo[1]
             rest == Tail(todo)
         IN CASE re.k = "lit" ->
                    IF /\ pos + Len(re.s) - 1 <= Len(s)
                       /\ \A j \in 1..Len(re.s) :
                              toLowerChar(s[pos + j - 1]) = toLowerChar(re.s[j])
                    THEN Match(rest, s, pos + Len(re.s), caps) ELSE <<>>
              [] re.k \in {"set", "any"} ->
                    IF pos <= Len(s) /\ InClass(s[pos], re)
                    THEN Match(rest, s, pos + 1, caps) ELSE <<>>
              [] re.k = "seq" -> Match(<<re.a, re.b>> \o rest, s, pos, caps)
              [] re.k = "alt" ->
                    CHOOSE r \in {IF first # <<>> THEN first
                                  ELSE Match(<<re.b>> \o rest, s, pos, caps) :
                                    first \in {Match(<<re.a>> \o rest, s, pos, caps)}} : TRUE
              [] re.k = "opt" ->
                    CHOOSE r \in {IF first # <<>> THEN first ELSE Match(rest, s, pos, caps) :
                                    first \in {Match(<<re.a>> \o rest, s, pos, caps)}} : TRUE
              [] re.k = "plus" -> Repeat(rest, s, pos, caps, RunEnd(re.a, s, pos))
              [] re.k = "cap" -> Match(<<re.a, RCapEnd(re.i, pos)>> \o rest, s, pos, caps)
              [] re.k = "capEnd" ->
                    Match(rest, s, pos, [caps EXCEPT ![re.i] = <<re.start, pos>>])

\* a greedy class+ that began at pos: the longest run first, then shorter ones
Repeat(rest, s, pos, caps, end) ==
    IF end <= pos THEN <<>>
    ELSE CHOOSE r \in {IF first # <<>> THEN first ELSE Repeat(rest, s, pos, caps, end - 1) :
                            first \in {Match(rest, s, end, caps)}} : TRUE

\* the leftmost position from which re matches, with the match found there
RECURSIVE Search(_, _, _)
Search(re, s, p) ==
    IF p > Len(s) + 1 THEN <<>>
    ELSE CHOOSE r \in {IF m # <<>> THEN << [start |-> p, end |-> m[1].pos, caps |-> m[1].caps] >>
                       ELSE Search(re, s, p + 1) :
                            m \in {Match(<<re>>, s, p, NoCaptures)}} : TRUE

\* s.match(re): None, or the whole match and the groups
Groups(s, m) ==
    [whole |-> SubSeq(s, m.start, m.end - 1),
     group |-> [i \in 1..3 |-> IF m.caps[i] = <<>> THEN None
                               ELSE Some(SubSeq(s, m.caps[i][1], m.caps[i][2] - 1))]]
RegexMatch(s, re) ==
    CHOOSE r \in {IF m = <<>> THEN None ELSE Some(Groups(s, m[1])) : m \in {Search(re, s, 1)}} : TRUE

(***************************************************************************)
(* Calendar: day 0 is Sunday 7 January 2024                                *)
(***************************************************************************)
Epoch == [year |-> 2024, month |-> 0, day |-> 7]

isLeapYear(y) == (y % 4 = 0 /\ y % 100 # 0) \/ y % 400 = 0
DaysBeforeYear(y) == 365 * (y - 1) + ((y - 1) \div 4) - ((y - 1) \div 100) + ((y - 1) \div 400)
DaysBeforeMonth(y, m) ==
    <<0, 31, 59, 90, 120, 151, 181, 212, 243, 273, 304, 334>>[m + 1]
        + (IF isLeapYear(y) /\ m >= 2 THEN 1 ELSE 0)
DaysInMonth(y, m) ==
    IF m = 1 THEN (IF isLeapYear(y) THEN 29 ELSE 28)
    ELSE <<31, 28, 31, 30, 31, 30, 31, 31, 30, 31, 30, 31>>[m + 1]
AbsoluteDay(y, m, d) == DaysBeforeYear(y) + DaysBeforeMonth(y, m) + (d - 1)

\* new Date(year, month, day): months and days overflow, years 0..99 are 19xx
DateOf(year, month, day) ==
    LET y0 == IF year \in 0..99 THEN 1900 + year ELSE year
        y == y0 + (month \div 12)
        m == month % 12
    IN AbsoluteDay(y, m, day) - AbsoluteDay(Epoch.year, Epoch.month, Epoch.day)

\* Date.prototype.getDay / getFullYear
getDay(date) == ((date % 7) + 7) % 7
getFullYear(date) ==
    CHOOSE y \in (Epoch.year - 1)..(Epoch.year + 1) :
        DateOf(y, 0, 1) <= date /\ date < DateOf(y + 1, 0, 1)

\* date-fns startOfWeek / endOfWeek (weeks start on Sunday)
startOfWeek(date) == date - getDay(date)
endOfWeek(date) == startOfWeek(date) + 6

\* date-fns parseISO, for the forms YYYY-MM-DD, YYYY and CC: None is Invalid Date
parseISO(s) ==
    LET digits(t) == t # <<>> /\ \A i \in 1..Len(t) : t[i] \in DigitChars IN
    IF Len(s) = 10 /\ s[5] = "-" /\ s[8] = "-" /\ digits(SubSeq(s, 1, 4))
       /\ digits(SubSeq(s, 6, 7)) /\ digits(SubSeq(s, 9, 10))
    THEN LET y == parseInt(SubSeq(s, 1, 4))
             m == parseInt(SubSeq(s, 6, 7))
             d == parseInt(SubSeq(s, 9, 10))
         IN IF m \in 1..12 /\ d >= 1 /\ d <= DaysInMonth(y, m - 1)
            THEN Some(AbsoluteDay(y, m - 1, d) - AbsoluteDay(Epoch.year, Epoch.month, Epoch.day))
            ELSE None
    ELSE IF Len(s) = 4 /\ digits(s)
    THEN Some(AbsoluteDay(parseInt(s), 0, 1) - AbsoluteDay(Epoch.year, Epoch.month, Epoch.day))
    ELSE IF Len(s) = 2 /\ digits(s)
    THEN Some(AbsoluteDay(100 * parseInt(s), 0, 1)
                - AbsoluteDay(Epoch.year, Epoch.month, Epoch.day))
    ELSE None

(***************************************************************************)
(* Command parser (parseCommand)                                           *)
(***************************************************************************)
Spaces == RPlus(RSet(SpaceChars))
Number == RPlus(RSet(DigitChars))
Word == RPlus(RSet(WordChars))
Possessive == ROpt(RSeq(RLit(<<"'">>), ROpt(RLit(<<"s">>))))
WhatIs == RAlt(RLit(<<"'","s">>), RAlt(RLit(<<"s">>), RSeq(Spaces, RLit(<<"i","s">>))))

\* /move\s+(\d+)(?:'s?)?\s+(\w+)\s+(?:to\s+)?(.+)/i
moveRegex ==
    RCat(<< RLit(<<"m","o","v","e">>), Spaces, RCap(1, Number), Possessive, Spaces, RCap(2, Word), Spaces,
            ROpt(RSeq(RLit(<<"t","o">>), Spaces)), RCap(3, RPlus(RAny)) >>)

\* /what\s*(?:if|happens?\s*if)\s+(\d+)(?:'s?)?\s+(\w+)\s+(?:slips?\s+)?(?:to\s+)?(.+)/i
whatIfRegex ==
    RCat(<< RLit(<<"w","h","a","t">>), RStar(RSet(SpaceChars)),
            RAlt(RLit(<<"i","f">>),
                 RCat(<< RLit(<<"h","a","p","p","e","n">>), ROpt(RLit(<<"s">>)), RStar(RSet(SpaceChars)), RLit(<<"i","f">>) >>)),
            Spaces, RCap(1, Number), Possessive, Spaces, RCap(2, Word), Spaces,
            ROpt(RCat(<< RLit(<<"s","l","i","p">>), ROpt(RLit(<<"s">>)), Spaces >>)),
            ROpt(RSeq(RLit(<<"t","o">>), Spaces)), RCap(3, RPlus(RAny)) >>)

\* /show\s+(?:me\s+)?(.+)/i
showRegex ==
    RCat(<< RLit(<<"s","h","o","w">>), Spaces, ROpt(RSeq(RLit(<<"m","e">>), Spaces)), RCap(1, RPlus(RAny)) >>)

\* /what(?:'s|s|\s+is)\s+blocking\s+(\d+)/i
blockingRegex ==
    RCat(<< RLit(<<"w","h","a","t">>), WhatIs, Spaces, RLit(<<"b","l","o","c","k","i","n","g">>), Spaces, RCap(1, Number) >>)

\* /what(?:'s|s|\s+is)\s+late/i
lateRegex == RCat(<< RLit(<<"w","h","a","t">>), WhatIs, Spaces, RLit(<<"l","a","t","e">>) >>)

\* /list\s+(\w+)\s+(?:shots?\s+)?(?:for\s+)?(\d+)?/i
listRegex ==
    RCat(<< RLit(<<"l","i","s","t">>), Spaces, RCap(1, Word), Spaces,
            ROpt(RCat(<< RLit(<<"s","h","o","t">>), ROpt(RLit(<<"s">>)), Spaces >>)),
            ROpt(RSeq(RLit(<<"f","o","r">>), Spaces)), ROpt(RCap(2, Number)) >>)

Parsed(action, target, milestoneCode, newDate, type, raw) ==
    [action |-> action, target |-> target,
     params |-> [milestoneCode |-> milestoneCode, newDate |-> newDate, type |-> type, raw |-> raw]]

parseCommand_codeAsTyped(input) ==
    LET normalized == trim(toLowerCase(input))
        moveMatch == RegexMatch(normalized, moveRegex)
        whatIfMatch == RegexMatch(normalized, whatIfRegex)
        showMatch == RegexMatch(normalized, showRegex)
        blockingMatch == RegexMatch(normalized, blockingRegex)
        lateMatch == RegexMatch(normalized, lateRegex)
        listMatch == RegexMatch(normalized, listRegex)
    IN IF moveMatch # None
       THEN Parsed("move", moveMatch[1].group[1],
                   Str(moveMatch[1].group[2][1]), moveMatch[1].group[3][1], <<>>, <<>>)
       ELSE IF whatIfMatch # None
       THEN Parsed("what_if", whatIfMatch[1].group[1],
                   Str(toUpperCase(whatIfMatch[1].group[2][1])), whatIfMatch[1].group[3][1],
                   <<>>, <<>>)
       ELSE IF showMatch # None
       THEN Parsed("show", showMatch[1].group[1], "", <<>>, <<>>, <<>>)
       ELSE IF blockingMatch # None
       THEN Parsed("blocking", blockingMatch[1].group[1], "", <<>>, <<>>, <<>>)
       ELSE IF lateMatch # None
       THEN Parsed("late", None, "", <<>>, <<>>, <<>>)
       ELSE IF listMatch # None
       THEN Parsed("list", listMatch[1].group[2], "", <<>>, listMatch[1].group[1][1], <<>>)
       ELSE Parsed("unknown", None, "", <<>>, <<>>, input)

parseCommand_whatIfFirst(input) ==
    LET normalized == trim(toLowerCase(input))
        moveMatch == RegexMatch(normalized, moveRegex)
        whatIfMatch == RegexMatch(normalized, whatIfRegex)
        showMatch == RegexMatch(normalized, showRegex)
        blockingMatch == RegexMatch(normalized, blockingRegex)
        lateMatch == RegexMatch(normalized, lateRegex)
        listMatch == RegexMatch(normalized, listRegex)
    IN IF moveMatch # None /\ whatIfMatch = None
       THEN Parsed("move", moveMatch[1].group[1],
                   Str(toUpperCase(moveMatch[1].group[2][1])), moveMatch[1].group[3][1], <<>>, <<>>)
       ELSE IF whatIfMatch # None
       THEN Parsed("what_if", whatIfMatch[1].group[1],
                   Str(toUpperCase(whatIfMatch[1].group[2][1])), whatIfMatch[1].group[3][1],
                   <<>>, <<>>)
       ELSE IF showMatch # None
       THEN Parsed("show", showMatch[1].group[1], "", <<>>, <<>>, <<>>)
       ELSE IF blockingMatch # None
       THEN Parsed("blocking", blockingMatch[1].group[1], "", <<>>, <<>>, <<>>)
       ELSE IF lateMatch # None
       THEN Parsed("late", None, "", <<>>, <<>>, <<>>)
       ELSE IF listMatch # None
       THEN Parsed("list", listMatch[1].group[2], "", <<>>, listMatch[1].group[1][1], <<>>)
       ELSE Parsed("unknown", None, "", <<>>, <<>>, input)

parseCommand(input) ==
    LET normalized == trim(toLowerCase(input))
        moveMatch == RegexMatch(normalized, moveRegex)
        whatIfMatch == RegexMatch(normalized, whatIfRegex)
        showMatch == RegexMatch(normalized, showRegex)
        blockingMatch == RegexMatch(normalized, blockingRegex)
        lateMatch == RegexMatch(normalized, lateRegex)
        listMatch == RegexMatch(normalized, listRegex)
    IN IF moveMatch # None
       THEN Parsed("move", moveMatch[1].group[1],
                   Str(toUpperCase(moveMatch[1].group[2][1])), moveMatch[1].group[3][1], <<>>, <<>>)
       ELSE IF whatIfMatch # None
       THEN Parsed("what_if", whatIfMatch[1].group[1],
                   Str(toUpperCase(whatIfMatch[1].group[2][1])), whatIfMatch[1].group[3][1],
                   <<>>, <<>>)
       ELSE IF showMatch # None
       THEN Parsed("show", showMatch[1].group[1], "", <<>>, <<>>, <<>>)
       ELSE IF blockingMatch # None
       THEN Parsed("blocking", blockingMatch[1].group[1], "", <<>>, <<>>, <<>>)
       ELSE IF lateMatch # None
       THEN Parsed("late", None, "", <<>>, <<>>, <<>>)
       ELSE IF listMatch # None
       THEN Parsed("list", listMatch[1].group[2], "", <<>>, listMatch[1].group[1][1], <<>>)
       ELSE Parsed("unknown", None, "", <<>>, <<>>, input)

(***************************************************************************)
(* Date parser (parseDateReference)                                        *)
(***************************************************************************)
daysOfWeek == << <<"s","u","n","d","a","y">>, <<"m","o","n","d","a","y">>, <<"t","u","e","s","d","a","y">>, <<"w","e","d","n","e","s","d","a","y">>,
                 <<"t","h","u","r","s","d","a","y">>, <<"f","r","i","d","a","y">>, <<"s","a","t","u","r","d","a","y">> >>

Digits1to2 == RSeq(RSet(DigitChars), ROpt(RSet(DigitChars)))
Digits2to4 == RCat(<< RSet(DigitChars), RSet(DigitChars),
                      ROpt(RSeq(RSet(DigitChars), ROpt(RSet(DigitChars)))) >>)

\* /(\d{1,2})\/(\d{1,2})(?:\/(\d{2,4}))?/
slashRegex ==
    RCat(<< RCap(1, Digits1to2), RLit(<<"/">>), RCap(2, Digits1to2),
            ROpt(RSeq(RLit(<<"/">>), RCap(3, Digits2to4))) >>)

parseDateReference_onOrAfter(dateStr, referenceDate) ==
    LET normalized == trim(toLowerCase(dateStr))
        dayIndex == FindIndex([n \in 1..Len(daysOfWeek) |-> IncludesSub(normalized, daysOfWeek[n])]) - 1
        slashMatch == RegexMatch(normalized, slashRegex)
    IN IF normalized = <<"t","o","d","a","y">> THEN Some(referenceDate)
       ELSE IF normalized = <<"t","o","m","o","r","r","o","w">> THEN Some(addDays(referenceDate, 1))
       ELSE IF normalized = <<"y","e","s","t","e","r","d","a","y">> THEN Some(addDays(referenceDate, -1))
       ELSE IF dayIndex # -1
       THEN LET currentDay == getDay(referenceDate)
                toNext == IF dayIndex - currentDay < 0
                          THEN dayIndex - currentDay + 7 ELSE dayIndex - currentDay
                daysToAdd == IF IncludesSub(normalized, <<"n","e","x","t">>) THEN toNext + 7 ELSE toNext
            IN Some(addDays(referenceDate, daysToAdd))
       ELSE IF IncludesSub(normalized, <<"n","e","x","t"," ","w","e","e","k">>) THEN Some(addWeeks(referenceDate, 1))
       ELSE IF slashMatch # None
       THEN LET g == slashMatch[1].group
                month == parseInt(g[1][1]) - 1
                day == parseInt(g[2][1])
                year == IF g[3] # None
                        THEN (IF Len(g[3][1]) = 2 THEN 2000 + parseInt(g[3][1])
                              ELSE parseInt(g[3][1]))
                        ELSE getFullYear(referenceDate)
            IN Some(DateOf(year, month, day))
       ELSE parseISO(normalized)

parseDateReference_defaulting(dateStr, referenceDate) ==
    LET normalized == trim(toLowerCase(dateStr))
        dayIndex == FindIndex([n \in 1..Len(daysOfWeek) |-> IncludesSub(normalized, daysOfWeek[n])]) - 1
        slashMatch == RegexMatch(normalized, slashRegex)
    IN IF normalized = <<"t","o","d","a","y">> THEN Some(referenceDate)
       ELSE IF normalized = <<"t","o","m","o","r","r","o","w">> THEN Some(addDays(referenceDate, 1))
       ELSE IF normalized = <<"y","e","s","t","e","r","d","a","y">> THEN Some(addDays(referenceDate, -1))
       ELSE IF dayIndex # -1
       THEN LET currentDay == getDay(referenceDate)
                toNext == IF dayIndex - currentDay <= 0
                          THEN dayIndex - currentDay + 7 ELSE dayIndex - currentDay
                daysToAdd == IF IncludesSub(normalized, <<"n","e","x","t">>) THEN toNext + 7 ELSE toNext
            IN Some(addDays(referenceDate, daysToAdd))
       ELSE IF IncludesSub(normalized, <<"n","e","x","t"," ","w","e","e","k">>) THEN Some(addWeeks(referenceDate, 1))
       ELSE IF slashMatch # None
       THEN LET g == slashMatch[1].group
                month == parseInt(g[1][1]) - 1
                day == parseInt(g[2][1])
                year == IF g[3] # None
                        THEN (IF Len(g[3][1]) = 2 THEN 2000 + parseInt(g[3][1])
                              ELSE parseInt(g[3][1]))
                        ELSE getFullYear(referenceDate)
            IN Some(DateOf(year, month, day))
       ELSE IF parseISO(normalized) = None THEN Some(referenceDate)
       ELSE parseISO(normalized)

parseDateReference_monthOneBased(dateStr, referenceDate) ==
    LET normalized == trim(toLowerCase(dateStr))
        dayIndex == FindIndex([n \in 1..Len(daysOfWeek) |-> IncludesSub(normalized, daysOfWeek[n])]) - 1
        slashMatch == RegexMatch(normalized, slashRegex)
    IN IF normalized = <<"t","o","d","a","y">> THEN Some(referenceDate)
       ELSE IF normalized = <<"t","o","m","o","r","r","o","w">> THEN Some(addDays(referenceDate, 1))
       ELSE IF normalized = <<"y","e","s","t","e","r","d","a","y">> THEN Some(addDays(referenceDate, -1))
       ELSE IF dayIndex # -1
       THEN LET currentDay == getDay(referenceDate)
                toNext == IF dayIndex - currentDay <= 0
                          THEN dayIndex - currentDay + 7 ELSE dayIndex - currentDay
                daysToAdd == IF IncludesSub(normalized, <<"n","e","x","t">>) THEN toNext + 7 ELSE toNext
            IN Some(addDays(referenceDate, daysToAdd))
       ELSE IF IncludesSub(normalized, <<"n","e","x","t"," ","w","e","e","k">>) THEN Some(addWeeks(referenceDate, 1))
       ELSE IF slashMatch # None
       THEN LET g == slashMatch[1].group
                month == parseInt(g[1][1])
                day == parseInt(g[2][1])
                year == IF g[3] # None
                        THEN (IF Len(g[3][1]) = 2 THEN 2000 + parseInt(g[3][1])
                              ELSE parseInt(g[3][1]))
                        ELSE getFullYear(referenceDate)
            IN Some(DateOf(year, month, day))
       ELSE parseISO(normalized)

\* None is null
parseDateReference_slashFirst(dateStr, referenceDate) ==
    LET normalized == trim(toLowerCase(dateStr))
        dayIndex == FindIndex([n \in 1..Len(daysOfWeek) |-> IncludesSub(normalized, daysOfWeek[n])]) - 1
        slashMatch == RegexMatch(normalized, slashRegex)
    IN IF normalized = <<"t","o","d","a","y">> THEN Some(referenceDate)
       ELSE IF normalized = <<"t","o","m","o","r","r","o","w">> THEN Some(addDays(referenceDate, 1))
       ELSE IF normalized = <<"y","e","s","t","e","r","d","a","y">> THEN Some(addDays(referenceDate, -1))
       ELSE IF slashMatch # None
       THEN LET g == slashMatch[1].group
                month == parseInt(g[1][1]) - 1
                day == parseInt(g[2][1])
                year == IF g[3] # None
                        THEN (IF Len(g[3][1]) = 2 THEN 2000 + parseInt(g[3][1])
                              ELSE parseInt(g[3][1]))
                        ELSE getFullYear(referenceDate)
            IN Some(DateOf(year, month, day))
       ELSE IF dayIndex # -1
       THEN LET currentDay == getDay(referenceDate)
                toNext == IF dayIndex - currentDay <= 0
                          THEN dayIndex - currentDay + 7 ELSE dayIndex - currentDay
                daysToAdd == IF IncludesSub(normalized, <<"n","e","x","t">>) THEN toNext + 7 ELSE toNext
            IN Some(addDays(referenceDate, daysToAdd))
       ELSE IF IncludesSub(normalized, <<"n","e","x","t"," ","w","e","e","k">>) THEN Some(addWeeks(referenceDate, 1))
       ELSE parseISO(normalized)

parseDateReference(dateStr, referenceDate) ==
    LET normalized == trim(toLowerCase(dateStr))
        dayIndex == FindIndex([n \in 1..Len(daysOfWeek) |-> IncludesSub(normalized, daysOfWeek[n])]) - 1
        slashMatch == RegexMatch(normalized, slashRegex)
    IN IF normalized = <<"t","o","d","a","y">> THEN Some(referenceDate)
       ELSE IF normalized = <<"t","o","m","o","r","r","o","w">> THEN Some(addDays(referenceDate, 1))
       ELSE IF normalized = <<"y","e","s","t","e","r","d","a","y">> THEN Some(addDays(referenceDate, -1))
       ELSE IF dayIndex # -1
       THEN LET currentDay == getDay(referenceDate)
                toNext == IF dayIndex - currentDay <= 0
                          THEN dayIndex - currentDay + 7 ELSE dayIndex - currentDay
                daysToAdd == IF IncludesSub(normalized, <<"n","e","x","t">>) THEN toNext + 7 ELSE toNext
            IN Some(addDays(referenceDate, daysToAdd))
       ELSE IF IncludesSub(normalized, <<"n","e","x","t"," ","w","e","e","k">>) THEN Some(addWeeks(referenceDate, 1))
       ELSE IF slashMatch # None
       THEN LET g == slashMatch[1].group
                month == parseInt(g[1][1]) - 1
                day == parseInt(g[2][1])
                year == IF g[3] # None
                        THEN (IF Len(g[3][1]) = 2 THEN 2000 + parseInt(g[3][1])
                              ELSE parseInt(g[3][1]))
                        ELSE getFullYear(referenceDate)
            IN Some(DateOf(year, month, day))
       ELSE parseISO(normalized)

(***************************************************************************)
(* Demo data (loadDemoData)                                                *)
(***************************************************************************)
DemoProjectId == "demo-project"
DemoEpisodeCount == 10
DemoFirstNumber == 301
DemoEpisodeStride == 3
DemoTypeStride == 7

MType(id, code, requires) == [id |-> id, code |-> code, requiresCompletionOf |-> requires]

demoMilestoneTypes == <<
    MType("mt-ec",  "EC",  <<>>),
    MType("mt-dc",  "DC",  <<"EC">>),
    MType("mt-nc1", "NC1", <<"DC">>),
    MType("mt-nc2", "NC2", <<"NC1">>),
    MType("mt-fpl", "FPL", <<"NC2">>),
    MType("mt-ms",  "M/S", <<"FPL">>),
    MType("mt-cc",  "CC",  <<"FPL">>),
    MType("mt-mix", "MIX", <<"M/S", "CC">>),
    MType("mt-qc",  "QC",  <<"MIX">>),
    MType("mt-d",   "D",   <<"QC">>) >>

demoEpisodes ==
    [k \in 1..DemoEpisodeCount |->
        [id |-> "ep-" \o ToString(k), number |-> Chars(DemoFirstNumber + (k - 1))]]

demoMilestones(baseDate) ==
    LET nT == Len(demoMilestoneTypes) IN
    [k \in 1..(DemoEpisodeCount * nT) |->
        LET epIndex == (k - 1) \div nT
            mtIndex == (k - 1) % nT
            ep == demoEpisodes[epIndex + 1]
            mt == demoMilestoneTypes[mtIndex + 1]
            daysOffset == (epIndex * DemoEpisodeStride) + (mtIndex * DemoTypeStride)
        IN [id |-> "ms-" \o ep.id \o "-" \o mt.id,
            episodeId |-> ep.id,
            milestoneTypeId |-> mt.id,
            scheduledDate |-> Some(addDays(baseDate, daysOffset)),
            status |-> "scheduled",
            notes |-> "",
            updatedAt |-> baseDate]]

(***************************************************************************)
(* Dependency checker (checkDependencies)                                  *)
(***************************************************************************)
\* the part of the store the checker is handed (state: PostProState)
StoreState == [episodes |-> episodes, milestones |-> milestones, milestoneTypes |-> milestoneTypes]

Conflict(severity, text, code, otherCode, date, affected) ==
    [type |-> "dependency", severity |-> severity,
     message |-> [text |-> text, code |-> code, other |-> otherCode, date |-> Some(date)],
     affectedMilestones |-> affected]

\* state.milestones.find(m => m.episodeId === episodeId && m.milestoneTypeId === typeId)
episodeMilestoneIndex(ms, episodeId, typeId) ==
    FindIndex([n \in 1..Len(ms) |-> ms[n].episodeId = episodeId /\ ms[n].milestoneTypeId = typeId])

RECURSIVE prerequisiteConflicts_lastFirst(_, _, _, _, _)
prerequisiteConflicts_lastFirst(milestone, newDate, state, milestoneType, i) ==
    LET prerequisites == milestoneType.requiresCompletionOf IN
    IF i > Len(prerequisites) THEN <<>>
    ELSE
      LET prereqCode == prerequisites[i]
          ti == FindIndex([n \in 1..Len(state.milestoneTypes) |-> state.milestoneTypes[n].code = prereqCode])
          rest == prerequisiteConflicts_lastFirst(milestone, newDate, state, milestoneType, i + 1)
      IN IF ti = 0 THEN rest
         ELSE
           LET prereqType == state.milestoneTypes[ti]
               mi == episodeMilestoneIndex(state.milestones, milestone.episodeId, prereqType.id)
           IN IF /\ mi # 0
                 /\ state.milestones[mi].scheduledDate # None
                 /\ isAfter(state.milestones[mi].scheduledDate[1], newDate)
              THEN rest \o <<Conflict("error", "cannot be before", milestoneType.code, prereqCode,
                                      state.milestones[mi].scheduledDate[1],
                                      <<milestone.id, state.milestones[mi].id>>)>>
              ELSE rest

\* the loop over milestoneType.requiresCompletionOf, from position i on
RECURSIVE prerequisiteConflicts(_, _, _, _, _)
prerequisiteConflicts(milestone, newDate, state, milestoneType, i) ==
    LET prerequisites == milestoneType.requiresCompletionOf IN
    IF i > Len(prerequisites) THEN <<>>
    ELSE
      LET prereqCode == prerequisites[i]
          ti == FindIndex([n \in 1..Len(state.milestoneTypes) |-> state.milestoneTypes[n].code = prereqCode])
          rest == prerequisiteConflicts(milestone, newDate, state, milestoneType, i + 1)
      IN IF ti = 0 THEN rest
         ELSE
           LET prereqType == state.milestoneTypes[ti]
               mi == episodeMilestoneIndex(state.milestones, milestone.episodeId, prereqType.id)
           IN IF /\ mi # 0
                 /\ state.milestones[mi].scheduledDate # None
                 /\ isAfter(state.milestones[mi].scheduledDate[1], newDate)
              THEN <<Conflict("error", "cannot be before", milestoneType.code, prereqCode,
                              state.milestones[mi].scheduledDate[1],
                              <<milestone.id, state.milestones[mi].id>>)>> \o rest
              ELSE rest

RECURSIVE dependentConflicts_transitive(_, _, _, _, _)
dependentConflicts_transitive(milestone, newDate, state, milestoneType, i) ==
    IF i > Len(state.milestoneTypes) THEN <<>>
    ELSE
      LET depType == state.milestoneTypes[i]
          rest == dependentConflicts_transitive(milestone, newDate, state, milestoneType, i + 1)
      IN IF ~(\/ Includes(depType.requiresCompletionOf, milestoneType.code)
              \/ \E n \in 1..Len(state.milestoneTypes) :
                    /\ Includes(depType.requiresCompletionOf, state.milestoneTypes[n].code)
                    /\ Includes(state.milestoneTypes[n].requiresCompletionOf, milestoneType.code))
         THEN rest
         ELSE
           LET mi == episodeMilestoneIndex(state.milestones, milestone.episodeId, depType.id)
           IN IF /\ mi # 0
                 /\ state.milestones[mi].scheduledDate # None
                 /\ isBefore(state.milestones[mi].scheduledDate[1], newDate)
              THEN <<Conflict("warning", "will require moving", depType.code, depType.code,
                              state.milestones[mi].scheduledDate[1],
                              <<milestone.id, state.milestones[mi].id>>)>> \o rest
              ELSE rest

\* the loop over the dependents, from position i of the catalog on
RECURSIVE dependentConflicts(_, _, _, _, _)
dependentConflicts(milestone, newDate, state, milestoneType, i) ==
    IF i > Len(state.milestoneTypes) THEN <<>>
    ELSE
      LET depType == state.milestoneTypes[i]
          rest == dependentConflicts(milestone, newDate, state, milestoneType, i + 1)
      IN IF ~Includes(depType.requiresCompletionOf, milestoneType.code) THEN rest
         ELSE
           LET mi == episodeMilestoneIndex(state.milestones, milestone.episodeId, depType.id)
           IN IF /\ mi # 0
                 /\ state.milestones[mi].scheduledDate # None
                 /\ isBefore(state.milestones[mi].scheduledDate[1], newDate)
              THEN <<Conflict("warning", "will require moving", depType.code, depType.code,
                              state.milestones[mi].scheduledDate[1],
                              <<milestone.id, state.milestones[mi].id>>)>> \o rest
              ELSE rest

\* a checker that also pushes the dependents it warns about to the new date
checkDependencies_cascading(milestone, newDate, state) ==
    LET ti == FindIndex([n \in 1..Len(state.milestoneTypes) |-> state.milestoneTypes[n].id = milestone.milestoneTypeId]) IN
    IF ti = 0 THEN [conflicts |-> <<>>, state |-> state]
    ELSE
      LET milestoneType == state.milestoneTypes[ti]
          deps == dependentConflicts(milestone, newDate, state, milestoneType, 1)
          pushed == {deps[i].affectedMilestones[2] : i \in 1..Len(deps)}
      IN [conflicts |-> prerequisiteConflicts(milestone, newDate, state, milestoneType, 1) \o deps,
          state |-> [state EXCEPT !.milestones =
                        [k \in 1..Len(state.milestones) |->
                            IF state.milestones[k].id \in pushed
                            THEN [state.milestones[k] EXCEPT !.scheduledDate = Some(newDate)]
                            ELSE state.milestones[k]]]]

\* a checker that refuses a milestone whose type the catalog does not hold
checkDependencies_typed(milestone, newDate, state) ==
    LET ti == FindIndex([n \in 1..Len(state.milestoneTypes) |-> state.milestoneTypes[n].id = milestone.milestoneTypeId]) IN
    IF ti = 0
    THEN [conflicts |-> <<Conflict("error", "has no type", "", "", newDate, <<milestone.id>>)>>,
          state |-> state]
    ELSE
      LET milestoneType == state.milestoneTypes[ti]
      IN [conflicts |-> prerequisiteConflicts(milestone, newDate, state, milestoneType, 1)
                          \o dependentConflicts(milestone, newDate, state, milestoneType, 1),
          state |-> state]

\* checkDependencies(milestone, newDate, state): the conflicts it returns and
\* the store state it leaves behind (it is handed the live state object)
checkDependencies(milestone, newDate, state) ==
    LET ti == FindIndex([n \in 1..Len(state.milestoneTypes) |-> state.milestoneTypes[n].id = milestone.milestoneTypeId]) IN
    IF ti = 0 THEN [conflicts |-> <<>>, state |-> state]
    ELSE
      LET milestoneType == state.milestoneTypes[ti]
      IN [conflicts |-> prerequisiteConflicts(milestone, newDate, state, milestoneType, 1)
                          \o dependentConflicts(milestone, newDate, state, milestoneType, 1),
          state |-> state]

(***************************************************************************)
(* Collaborators: what the backend answers (api.projects.get) and what the *)
(* onboarding wizard submits                                               *)
(***************************************************************************)
Mile(id, episodeId, typeId, date) ==
    [id |-> id, episodeId |-> episodeId, milestoneTypeId |-> typeId, scheduledDate |-> date,
     status |-> "scheduled", notes |-> "", updatedAt |-> -1]

\* an acyclic catalog: A and U have no prerequisite, B needs A, C needs A, B and U
apiProjectOrdered ==
    [id |-> "p1",
     episodes |-> << [id |-> "e1", number |-> Chars(12)], [id |-> "e2", number |-> Chars(112)] >>,
     milestoneTypes |-> << MType("tA", "A", <<>>), MType("tU", "U", <<>>),
                           MType("tB", "B", <<"A">>), MType("tC", "C", <<"A", "B", "U">>) >>,
     milestones |-> << Mile("m-e1-C", "e1", "tC", Some(2 * DemoTypeStride)),
                       Mile("m-e2-A", "e2", "tA", Some(2 * DemoTypeStride)),
                       Mile("m-e1-A", "e1", "tA", Some(DemoTypeStride)),
                       Mile("m-e1-B", "e1", "tB", Some(DemoTypeStride)),
                       Mile("m-e1-U", "e1", "tU", None),
                       Mile("m-e2-B", "e2", "tB", Some(DemoTypeStride)),
                       Mile("m-e2-C", "e2", "tC", Some(DemoTypeStride)) >>]

\* a catalog the backend can hold: X needs Y, Y needs X, Z needs itself
apiProjectCyclic ==
    [id |-> "p1",
     episodes |-> << [id |-> "e1", number |-> Chars(7)] >>,
     milestoneTypes |-> << MType("tX", "X", <<"Y">>), MType("tY", "Y", <<"X">>),
                           MType("tZ", "Z", <<"Z">>) >>,
     milestones |-> << Mile("m-e1-X", "e1", "tX", Some(0)),
                       Mile("m-e1-Y", "e1", "tY", Some(DemoTypeStride)) >>]

\* a catalog the backend can hold: P needs a code no type has, and the
\* milestone m-e1-Q is of a type the catalog no longer holds
apiProjectOrphan ==
    [id |-> "p1",
     episodes |-> << [id |-> "e1", number |-> Chars(9)] >>,
     milestoneTypes |-> << MType("tP", "P", <<"GONE">>) >>,
     milestones |-> << Mile("m-e1-Q", "e1", "tQ", Some(DemoTypeStride)),
                       Mile("m-e1-P", "e1", "tP", Some(DemoTypeStride)) >>]

ApiProjects == {apiProjectOrdered, apiProjectCyclic, apiProjectOrphan}
ProjectIds == {p.id : p \in ApiProjects}
\* what the backend holds for a project at the time it is asked
ApiAnswers(projectId) == {p \in ApiProjects : p.id = projectId}

\* OnboardingWizard: a two-step workflow, and the same workflow after the user
\* retyped the code of LOCK as CUT (updateMilestoneType)
OType(code, requires) == [code |-> code, requiresCompletionOf |-> requires]

onboardingChain ==
    [episodeCount |-> 1, episodePrefix |-> <<>>, episodeStartNumber |-> 1,
     milestoneTypes |-> << OType("CUT", <<>>), OType("LOCK", <<"CUT">>) >>]

onboardingRetyped ==
    [episodeCount |-> 1, episodePrefix |-> <<>>, episodeStartNumber |-> 1,
     milestoneTypes |-> << OType("CUT", <<>>), OType("CUT", <<"CUT">>) >>]

OnboardingInputs == {onboardingChain, onboardingRetyped}

(***************************************************************************)
(* Results and the record of the last call                                 *)
(***************************************************************************)
Result(success, message, conflicts) ==
    [success |-> success, message |-> message, conflicts |-> conflicts]

NoResult == Result(TRUE, "", None)

\* checked: the call ran checkDependencies; applied: it reached the Apply step;
\* input: the text a locally processed command was given
Call(op, id, date, result, checked, applied) ==
    [op |-> op, id |-> id, date |-> date, result |-> result,
     checked |-> checked, applied |-> applied, input |-> <<>>]

\* a call that has no result and runs no dependency check
Plain(op) == Call(op, "", None, NoResult, FALSE, FALSE)

NoTask == [fn |-> "", at |-> "", projectId |-> "", caller |-> "", id |-> "", date |-> None,
           i |-> 0, data |-> <<>>]

\* the dates calls are made with: the first three rows of the demo schedule
DateInputs == {0, DemoTypeStride, 2 * DemoTypeStride}

\* the milestone ids calls are made with: the head of the list
TargetIds == {milestones[i].id : i \in 1..(IF Len(milestones) < MaxTargetIndex
                                           THEN Len(milestones) ELSE MaxTargetIndex)}

\* the arguments moveMilestone is called with: known ids, and one unknown id
MoveInputs == (TargetIds \X DateInputs) \cup {<<"ms-unknown", 0>>}

(***************************************************************************)
(* Mutations                                                               *)
(***************************************************************************)
\* { ...m, ...updates, updatedAt: new Date() }
spread(m, updates, clock) ==
    [f \in DOMAIN m |-> IF f = "updatedAt" THEN clock
                        ELSE IF f \in DOMAIN updates THEN updates[f] ELSE m[f]]

\* updateMilestone: state.milestones.map(m => m.id === id ? {...} : m)
updateMilestoneMap(ms, id, updates, clock) ==
    [k \in 1..Len(ms) |-> IF ms[k].id = id THEN spread(ms[k], updates, clock) ELSE ms[k]]

\* the Apply step of moveMilestone
applyMove_keepingDate(ms, id, newDate, clock) ==
    [k \in 1..Len(ms) |-> IF ms[k].id = id THEN [ms[k] EXCEPT !.updatedAt = clock] ELSE ms[k]]
applyMove_rescheduling(ms, id, newDate, clock) ==
    [k \in 1..Len(ms) |->
        IF ms[k].id = id
        THEN [ms[k] EXCEPT !.scheduledDate = Some(newDate), !.updatedAt = clock,
                           !.status = "scheduled"]
        ELSE ms[k]]
applyMove(ms, id, newDate, clock) ==
    [k \in 1..Len(ms) |->
        IF ms[k].id = id
        THEN [ms[k] EXCEPT !.scheduledDate = Some(newDate), !.updatedAt = clock]
        ELSE ms[k]]

\* conflicts.some(c => c.severity === 'error')
hasErrors_anyConflict(conflicts) == Len(conflicts) > 0
hasErrors_never(conflicts) == FALSE
hasErrors(conflicts) == \E i \in 1..Len(conflicts) : conflicts[i].severity = "error"

\* conflicts.length > 0 ? conflicts : undefined
attached(conflicts) == IF Len(conflicts) > 0 THEN Some(conflicts) ELSE None

\* moveMilestone(id, newDate) run against the store state `state` at time
\* `clock`: its result, the store state it leaves, and what it went through
moveMilestoneOutcome_applyFirst(id, newDate, state, clock) ==
    LET mi == FindIndex([n \in 1..Len(state.milestones) |-> state.milestones[n].id = id]) IN
    IF mi = 0
    THEN [result |-> Result(FALSE, "Milestone not found", None), state |-> state,
          checked |-> FALSE, applied |-> FALSE]
    ELSE
      LET chk == checkDependencies(state.milestones[mi], newDate, state)
          moved == [chk.state EXCEPT !.milestones = applyMove(chk.state.milestones, id, newDate, clock)]
      IN IF hasErrors(chk.conflicts)
         THEN [result |-> Result(FALSE, "Cannot move milestone due to dependency conflicts",
                                 Some(chk.conflicts)),
               state |-> moved, checked |-> TRUE, applied |-> FALSE]
         ELSE [result |-> Result(TRUE, "Moved", attached(chk.conflicts)),
               state |-> moved, checked |-> TRUE, applied |-> TRUE]
moveMilestoneOutcome(id, newDate, state, clock) ==
    LET mi == FindIndex([n \in 1..Len(state.milestones) |-> state.milestones[n].id = id]) IN
    IF mi = 0
    THEN [result |-> Result(FALSE, "Milestone not found", None), state |-> state,
          checked |-> FALSE, applied |-> FALSE]
    ELSE
      LET chk == checkDependencies(state.milestones[mi], newDate, state) IN
      IF hasErrors(chk.conflicts)
      THEN [result |-> Result(FALSE, "Cannot move milestone due to dependency conflicts",
                              Some(chk.conflicts)),
            state |-> chk.state, checked |-> TRUE, applied |-> FALSE]
      ELSE [result |-> Result(TRUE, "Moved", attached(chk.conflicts)),
            state |-> [chk.state EXCEPT
                          !.milestones = applyMove(chk.state.milestones, id, newDate, clock)],
            checked |-> TRUE, applied |-> TRUE]

(***************************************************************************)
(* Initial state: create<PostProState>(...)                                *)
(***************************************************************************)
Init ==
    /\ now \in Clocks
    /\ currentProject = None
    /\ episodes = <<>>
    /\ milestones = <<>>
    /\ milestoneTypes = <<>>
    /\ ui = [selectedEpisodeId |-> None,
             dateRange |-> [start |-> startOfWeek(now), end |-> endOfWeek(addWeeks(now, 8))],
             isLoading |-> FALSE, isSaving |-> FALSE, error |-> None, showOnboarding |-> FALSE]
    /\ uuids = 0
    /\ tasks = {}
    /\ last = Plain("init")

(***************************************************************************)
(* Synchronous store calls                                                 *)
(***************************************************************************)
\* the updates updateMilestone is called with (updates: Partial<Milestone>)
UpdateInputs ==
    (TargetIds \X {[status |-> "completed"], [scheduledDate |-> Some(0)]})
        \cup {<<"ms-unknown", [status |-> "completed"]>>}

UpdateMilestone ==
    \E call \in UpdateInputs :
        LET id == call[1]
            updates == call[2]
        IN
        /\ milestones' = updateMilestoneMap(milestones, id, updates, now)
        /\ last' = Plain("updateMilestone")
        /\ UNCHANGED <<currentProject, episodes, milestoneTypes, ui, now, uuids, tasks>>

\* a moveMilestone that yields between its dependency check and its Apply step
MoveMilestone_awaiting ==
    \/ /\ Cardinality(tasks) < MaxTasks
       /\ \E call \in MoveInputs :
            tasks' = tasks \cup {[NoTask EXCEPT !.fn = "moveMilestone", !.at = "apply",
                                                !.id = call[1], !.date = Some(call[2]),
                                                !.data = <<moveMilestoneOutcome(call[1], call[2],
                                                                StoreState, now).result>>]}
       /\ last' = Plain("moveMilestone.check")
       /\ UNCHANGED <<currentProject, episodes, milestones, milestoneTypes, ui, now, uuids>>
    \/ \E t \in tasks :
        /\ t.fn = "moveMilestone"
        /\ milestones' = IF t.data[1].success
                         THEN applyMove(milestones, t.id, t.date[1], now) ELSE milestones
        /\ tasks' = tasks \ {t}
        /\ last' = Call("moveMilestone", t.id, t.date, t.data[1], TRUE, t.data[1].success)
        /\ UNCHANGED <<currentProject, episodes, milestoneTypes, ui, now, uuids>>

MoveMilestone ==
    \E call \in MoveInputs :
        LET id == call[1]
            newDate == call[2]
            out == moveMilestoneOutcome(id, newDate, StoreState, now)
        IN
        /\ milestones' = out.state.milestones
        /\ episodes' = out.state.episodes
        /\ milestoneTypes' = out.state.milestoneTypes
        /\ last' = Call("moveMilestone", id, Some(newDate), out.result, out.checked, out.applied)
        /\ UNCHANGED <<currentProject, ui, now, uuids, tasks>>

\* the milestones createMilestone is called with
CreateInputs ==
    {[episodeId |-> episodes[e].id, milestoneTypeId |-> milestoneTypes[t].id, scheduledDate |-> d] :
        e \in {k \in {1} : k <= Len(episodes)},
        t \in {k \in {1} : k <= Len(milestoneTypes)},
        d \in {Some(0)}}

CreateMilestone ==
    /\ uuids < MaxUuids
    /\ \E milestone \in CreateInputs :
        /\ milestones' = Append(milestones,
                                [id |-> "uuid-" \o ToString(uuids + 1),
                                 episodeId |-> milestone.episodeId,
                                 milestoneTypeId |-> milestone.milestoneTypeId,
                                 scheduledDate |-> milestone.scheduledDate,
                                 status |-> "scheduled", notes |-> "", updatedAt |-> now])
        /\ uuids' = uuids + 1
        /\ last' = Plain("createMilestone")
        /\ UNCHANGED <<currentProject, episodes, milestoneTypes, ui, now, tasks>>

\* the set(...) of loadDemoData
demoLoaded ==
    [clock \in Clocks |->
        [currentProject |-> Some(DemoProjectId), episodes |-> demoEpisodes,
         milestones |-> demoMilestones(clock), milestoneTypes |-> demoMilestoneTypes]]

LoadDemoData ==
    /\ currentProject' = demoLoaded[now].currentProject
    /\ episodes' = demoLoaded[now].episodes
    /\ milestones' = demoLoaded[now].milestones
    /\ milestoneTypes' = demoLoaded[now].milestoneTypes
    /\ ui' = [ui EXCEPT !.isLoading = FALSE]
    /\ last' = Plain("loadDemoData")
    /\ UNCHANGED <<now, uuids, tasks>>

(***************************************************************************)
(* Data loading: loadProject, fetchProjectData                             *)
(***************************************************************************)
FetchTask(projectId, caller, data) ==
    [NoTask EXCEPT !.fn = "fetchProjectData", !.at = "api.projects.get",
                   !.projectId = projectId, !.caller = caller, !.data = data]

LoadProject ==
    /\ Cardinality(tasks) < MaxTasks
    /\ \E projectId \in ProjectIds :
        /\ ui' = [ui EXCEPT !.isLoading = TRUE, !.error = None]
        /\ tasks' = tasks \cup {FetchTask(projectId, "loadProject", <<>>)}
        /\ last' = Plain("loadProject")
    /\ UNCHANGED <<currentProject, episodes, milestones, milestoneTypes, now, uuids>>

FetchProjectData ==
    /\ Cardinality(tasks) < MaxTasks
    /\ \E projectId \in ProjectIds :
        /\ tasks' = tasks \cup {FetchTask(projectId, "", <<>>)}
        /\ last' = Plain("fetchProjectData")
    /\ UNCHANGED <<currentProject, episodes, milestones, milestoneTypes, ui, now, uuids>>

\* what the caller awaiting fetchProjectData does once it has settled
afterFetch(t, flags) ==
    IF t.caller = "createProjectFromOnboarding"
    THEN [flags EXCEPT !.isSaving = FALSE, !.showOnboarding = FALSE]
    ELSE flags

fetchedResult(t) ==
    IF t.caller = "processCommand" THEN t.data[1] ELSE NoResult

\* api.projects.get answered: the set(...) of fetchProjectData
FetchProjectDataResolved ==
    \E t \in tasks :
        /\ t.fn = "fetchProjectData"
        /\ \E project \in ApiAnswers(t.projectId) :
            /\ currentProject' = Some(project.id)
            /\ episodes' = project.episodes
            /\ milestones' = project.milestones
            /\ milestoneTypes' = project.milestoneTypes
        /\ ui' = afterFetch(t, [ui EXCEPT !.isLoading = FALSE])
        /\ tasks' = tasks \ {t}
        /\ last' = Call("fetchProjectData.resolved", "", None, fetchedResult(t), FALSE, FALSE)
        /\ UNCHANGED <<now, uuids>>

\* api.projects.get threw: the catch of fetchProjectData falls back to loadDemoData
FetchProjectDataFailed ==
    \E t \in tasks :
        /\ t.fn = "fetchProjectData"
        /\ currentProject' = demoLoaded[now].currentProject
        /\ episodes' = demoLoaded[now].episodes
        /\ milestones' = demoLoaded[now].milestones
        /\ milestoneTypes' = demoLoaded[now].milestoneTypes
        /\ ui' = afterFetch(t, [ui EXCEPT !.isLoading = FALSE])
        /\ tasks' = tasks \ {t}
        /\ last' = Call("fetchProjectData.failed", "", None, fetchedResult(t), FALSE, FALSE)
        /\ UNCHANGED <<now, uuids>>

(***************************************************************************)
(* Project creation: createProjectFromOnboarding                           *)
(***************************************************************************)
CreateProjectFromOnboarding ==
    /\ Cardinality(tasks) < MaxTasks
    /\ \E onboardingData \in OnboardingInputs :
        /\ ui' = [ui EXCEPT !.isSaving = TRUE, !.error = None]
        /\ tasks' = tasks \cup {[NoTask EXCEPT !.fn = "createProjectFromOnboarding",
                                               !.at = "api.projects.create",
                                               !.data = <<onboardingData>>]}
        /\ last' = Plain("createProjectFromOnboarding")
    /\ UNCHANGED <<currentProject, episodes, milestones, milestoneTypes, now, uuids>>

\* the api call the creation awaits answered: go on to the next await
CreateProjectStep ==
    \E t \in tasks :
        /\ t.fn = "createProjectFromOnboarding"
        /\ LET types == t.data[1].milestoneTypes IN
           \/ /\ t.at = "api.projects.create"
              /\ \E projectId \in ProjectIds :
                    tasks' = (tasks \ {t}) \cup
                        {IF Len(types) = 0
                         THEN FetchTask(projectId, "createProjectFromOnboarding", <<>>)
                         ELSE [t EXCEPT !.at = "api.milestoneTypes.create",
                                        !.projectId = projectId, !.i = 1]}
           \/ /\ t.at = "api.milestoneTypes.create"
              /\ tasks' = (tasks \ {t}) \cup
                        {IF t.i < Len(types)
                         THEN [t EXCEPT !.i = t.i + 1]
                         ELSE FetchTask(t.projectId, "createProjectFromOnboarding", <<>>)}
        /\ last' = Plain("createProjectFromOnboarding.step")
        /\ UNCHANGED <<currentProject, episodes, milestones, milestoneTypes, ui, now, uuids>>

\* the catch branch: the project is created locally
localMilestoneTypes(onboardingData) ==
    [k \in 1..Len(onboardingData.milestoneTypes) |->
        LET mt == onboardingData.milestoneTypes[k] IN
        MType("mt-" \o mt.code \o "-" \o ToString(k - 1), mt.code, mt.requiresCompletionOf)]

localEpisodes(onboardingData) ==
    [k \in 1..onboardingData.episodeCount |->
        [id |-> "ep-" \o ToString(k),
         number |-> onboardingData.episodePrefix
                        \o Chars(onboardingData.episodeStartNumber + (k - 1))]]

CreateProjectFailed ==
    \E t \in tasks :
        /\ t.fn = "createProjectFromOnboarding"
        /\ currentProject' = Some("project-" \o ToString(now))
        /\ episodes' = localEpisodes(t.data[1])
        /\ milestones' = <<>>
        /\ milestoneTypes' = localMilestoneTypes(t.data[1])
        /\ ui' = [ui EXCEPT !.isSaving = FALSE, !.showOnboarding = FALSE]
        /\ tasks' = tasks \ {t}
        /\ last' = Plain("createProjectFromOnboarding.failed")
        /\ UNCHANGED <<now, uuids>>

(***************************************************************************)
(* Command front end: processCommand                                       *)
(***************************************************************************)
\* the texts typed into the command bar
texts ==
    [moveDcYesterday |->
        <<"m","o","v","e"," ","3","0","1"," ","d","c"," ","t","o"," ","y","e","s","t","e","r","d","a","y">>,
     moveEcNextMonday |->
        <<"M","o","v","e"," ","3","0","1"," ","E","C"," ","t","o"," ","n","e","x","t"," ","M","o","n","d","a","y">>,
     whatIfDcYesterday |->
        <<"w","h","a","t"," ","i","f"," ","3","0","1"," ","d","c"," ","s","l","i","p","s"," ","t","o"," ","y","e","s","t","e","r","d","a","y">>,
     whatIfEcNextMonday |->
        <<"W","h","a","t"," ","i","f"," ","3","0","1","'","s"," ","E","C"," ","s","l","i","p","s"," ","t","o"," ","n","e","x","t"," ","m","o","n","d","a","y">>,
     whatIfDcToday |->
        <<"w","h","a","t"," ","i","f"," ","3","0","1"," ","d","c"," ","t","o"," ","t","o","d","a","y">>,
     whatsLate |->
        <<"w","h","a","t","'","s"," ","l","a","t","e","?">>,
     whatsBlocking |->
        <<"w","h","a","t","s"," ","b","l","o","c","k","i","n","g"," ","3","0","1">>,
     showNextWeek |->
        <<"s","h","o","w"," ","n","e","x","t"," ","w","e","e","k">>,
     showThisWeek |->
        <<"s","h","o","w"," ","m","e"," ","t","h","i","s"," ","w","e","e","k">>,
     moveDcSomeday |->
        <<"m","o","v","e"," ","3","0","1"," ","d","c"," ","t","o"," ","s","o","m","e","d","a","y">>,
     moveLockFriday |->
        <<"m","o","v","e"," ","3","0","4"," ","l","o","c","k"," ","t","o"," ","F","r","i","d","a","y">>,
     move30DcYesterday |->
        <<"m","o","v","e"," ","3","0"," ","d","c"," ","t","o"," ","y","e","s","t","e","r","d","a","y">>,
     whatIf1EcToday |->
        <<"w","h","a","t"," ","i","f"," ","1"," ","e","c"," ","t","o"," ","t","o","d","a","y">>,
     whatIsBlocking1 |->
        <<"w","h","a","t"," ","i","s"," ","b","l","o","c","k","i","n","g"," ","1">>,
     show30 |->
        <<"s","h","o","w"," ","m","e"," ","3","0">>,
     hello |->
        <<"h","e","l","l","o">>,
     moveLoud |->
        <<"M","O","V","E"," ","3","0","4","'","s"," ","L","o","c","k"," "," ","F","r","i","d","a","y"," ","t","h","e"," ","1","3","t","h">>,
     whatIfThenMove |->
        <<"w","h","a","t"," ","i","f"," ","3","0","1"," ","d","c"," ","s","l","i","p","s"," ","t","o"," ","m","o","v","e"," ","3","0","2"," ","e","c"," ","t","o"," ","f","r","i","d","a","y">>,
     showWhatsLate |->
        <<"s","h","o","w"," ","m","e"," ","w","h","a","t","'","s"," ","l","a","t","e">>,
     whatHappensIf |->
        <<"W","h","a","t"," ","h","a","p","p","e","n","s"," ","i","f"," ","3","0","1"," ","E","C"," ","t","o"," ","1","2","/","2","0">>,
     listShots |->
        <<"l","i","s","t"," ","v","f","x"," ","s","h","o","t","s"," ","f","o","r"," ","3","0","4">>,
     whatIsBlockingList |->
        <<"w","h","a","t"," ","i","s"," ","b","l","o","c","k","i","n","g"," ","3","0","2"," ","l","i","s","t"," ","a"," ","b">>,
     lateList |->
        <<"l","i","s","t"," ","w","h","a","t","'","s"," ","l","a","t","e">>,
     empty |->
        <<>>,
     moveEcJan23 |->
        <<"m","o","v","e"," ","3","0","1"," ","e","c"," ","t","o"," ","1","/","2","3">>,
     whatIfDcJan22 |->
        <<"w","h","a","t"," ","i","f"," ","3","0","1"," ","d","c"," ","t","o"," ","1","/","2","2">>,
     whatIfFplFeb19 |->
        <<"w","h","a","t"," ","i","f"," ","3","0","1"," ","f","p","l"," ","t","o"," ","2","/","1","9">>]

CommandTexts ==
    {texts.moveDcYesterday, texts.moveEcNextMonday, texts.whatIfDcYesterday, texts.whatIfEcNextMonday,
     texts.whatIfDcToday, texts.whatsLate, texts.whatsBlocking,
     texts.moveDcSomeday, texts.moveLockFriday, texts.move30DcYesterday, texts.whatIf1EcToday, texts.whatIsBlocking1,
     texts.show30, texts.moveEcJan23, texts.whatIfDcJan22, texts.whatIfFplFeb19, texts.hello}

\* more texts, for parseCommand alone

\* the texts parseCommand is applied to: those of the command bar and more
ParserTexts ==
    CommandTexts \cup {texts.moveLoud, texts.whatIfThenMove, texts.showWhatsLate, texts.whatHappensIf,
                         texts.listShots, texts.whatIsBlockingList, texts.lateList, texts.showThisWeek, texts.showNextWeek,
                         texts.empty}

\* const parsed = parseCommand(input, state), for each text
parsedCommands == [input \in ParserTexts |-> parseCommand(input)]

\* const newDate = parseDateReference(parsed.params.newDate), for each text and clock
dateReferences ==
    [input \in ParserTexts |->
        [clock \in Clocks |->
            IF parsedCommands[input].action \in {"move", "what_if"}
            THEN parseDateReference(parsedCommands[input].params.newDate, clock)
            ELSE None]]

\* what one call of processCommand leaves: the store, the view and its result
Outcome(op, id, date, result, state, view, checked, applied) ==
    [op |-> op, id |-> id, date |-> date, result |-> result, state |-> state, view |-> view,
     checked |-> checked, applied |-> applied]

Failure_resetting(op, message, state, view) ==
    Outcome(op, "", None, Result(FALSE, message, None), state,
            [view EXCEPT !.selectedEpisodeId = None], FALSE, FALSE)
Failure_terse(op, message, state, view) ==
    Outcome(op, "", None, Result(FALSE, "", None), state, view, FALSE, FALSE)
Failure(op, message, state, view) ==
    Outcome(op, "", None, Result(FALSE, message, None), state, view, FALSE, FALSE)

findEpisode_exact(state, target) ==
    FindIndex([n \in 1..Len(state.episodes) |-> state.episodes[n].number = target])

\* state.episodes.find(e => e.number.includes(target))
findEpisode(state, target) ==
    FindIndex([n \in 1..Len(state.episodes) |-> IncludesSub(state.episodes[n].number, target)])

\* `${ep?.number} ${mt?.code}` for the milestones of ms, joined by ', '
RECURSIVE lateItems(_, _)
lateItems(ms, state) ==
    IF ms = <<>> THEN ""
    ELSE LET m == Head(ms)
             ei == FindIndex([n \in 1..Len(state.episodes) |-> state.episodes[n].id = m.episodeId])
             ti == FindIndex([n \in 1..Len(state.milestoneTypes) |-> state.milestoneTypes[n].id = m.milestoneTypeId])
         IN (IF ei = 0 THEN "undefined" ELSE Str(state.episodes[ei].number)) \o " "
                \o (IF ti = 0 THEN "undefined" ELSE state.milestoneTypes[ti].code)
                \o (IF Len(ms) > 1 THEN ", " ELSE "") \o lateItems(Tail(ms), state)

\* the blockers of the 'blocking' case: `${mt.code} (${m.status})`, joined by ', '
RECURSIVE blockers(_, _)
blockers(ms, state) ==
    IF ms = <<>> THEN <<>>
    ELSE LET m == Head(ms)
             ti == FindIndex([n \in 1..Len(state.milestoneTypes) |-> state.milestoneTypes[n].id = m.milestoneTypeId])
         IN (IF ti = 0 THEN <<>> ELSE << state.milestoneTypes[ti].code \o " (" \o m.status \o ")" >>)
                \o blockers(Tail(ms), state)

RECURSIVE join(_)
join(items) ==
    IF items = <<>> THEN ""
    ELSE Head(items) \o (IF Len(items) > 1 THEN ", " ELSE "") \o join(Tail(items))

resolveTarget_anyType(parsed, newDate, state) ==
    LET target == IF parsed.target = None THEN <<>> ELSE parsed.target[1]
        ei == findEpisode(state, target)
        ti == IF \E n \in 1..Len(state.milestoneTypes) : state.milestoneTypes[n].code = parsed.params.milestoneCode
              THEN FindIndex([n \in 1..Len(state.milestoneTypes) |-> state.milestoneTypes[n].code = parsed.params.milestoneCode])
              ELSE IF Len(state.milestoneTypes) > 0 THEN 1 ELSE 0
        mi == IF ei = 0 \/ ti = 0 THEN 0
              ELSE episodeMilestoneIndex(state.milestones, state.episodes[ei].id,
                                         state.milestoneTypes[ti].id)
    IN IF ei = 0 THEN [ok |-> FALSE, message |-> "Episode " \o Str(target) \o " not found"]
       ELSE IF ti = 0
       THEN [ok |-> FALSE, message |-> "Unknown milestone type: " \o parsed.params.milestoneCode]
       ELSE IF mi = 0
       THEN [ok |-> FALSE, message |-> Str(state.episodes[ei].number) \o " doesn't have a "
                                           \o state.milestoneTypes[ti].code \o " scheduled"]
       ELSE IF newDate = None
       THEN [ok |-> FALSE, message |-> "Couldn't understand date: " \o Str(parsed.params.newDate)]
       ELSE [ok |-> TRUE, milestone |-> state.milestones[mi], newDate |-> newDate[1]]

\* the cases 'move' and 'what_if' up to the resolved milestone and date
resolveTarget(parsed, newDate, state) ==
    LET target == IF parsed.target = None THEN <<>> ELSE parsed.target[1]
        ei == findEpisode(state, target)
        ti == FindIndex([n \in 1..Len(state.milestoneTypes) |-> state.milestoneTypes[n].code = parsed.params.milestoneCode])
        mi == IF ei = 0 \/ ti = 0 THEN 0
              ELSE episodeMilestoneIndex(state.milestones, state.episodes[ei].id,
                                         state.milestoneTypes[ti].id)
    IN IF ei = 0 THEN [ok |-> FALSE, message |-> "Episode " \o Str(target) \o " not found"]
       ELSE IF ti = 0
       THEN [ok |-> FALSE, message |-> "Unknown milestone type: " \o parsed.params.milestoneCode]
       ELSE IF mi = 0
       THEN [ok |-> FALSE, message |-> Str(state.episodes[ei].number) \o " doesn't have a "
                                           \o state.milestoneTypes[ti].code \o " scheduled"]
       ELSE IF newDate = None
       THEN [ok |-> FALSE, message |-> "Couldn't understand date: " \o Str(parsed.params.newDate)]
       ELSE [ok |-> TRUE, milestone |-> state.milestones[mi], newDate |-> newDate[1]]

\* the analysis of case 'what_if': the result, and the store state it leaves
whatIf_applying(milestone, newDate, state, clock) ==
    LET out == moveMilestoneOutcome(milestone.id, newDate, state, clock) IN
    [result |-> out.result, state |-> out.state]
whatIf(milestone, newDate, state, clock) ==
    LET chk == checkDependencies(milestone, newDate, state) IN
    [result |-> IF Len(chk.conflicts) = 0
                THEN Result(TRUE, "would have no conflicts", None)
                ELSE Result(TRUE, "would cause " \o ToString(Len(chk.conflicts)) \o " issue(s)",
                            Some(chk.conflicts)),
     state |-> chk.state]

\* the local branch of processCommand (demo mode) once the text is parsed:
\* switch (parsed.action), with newDate what parseDateReference made of the date text
processCommandLocal(parsed, newDate, state, view, clock) ==
    LET op == "processCommand." \o parsed.action IN
    CASE parsed.action = "move" ->
            LET r == resolveTarget(parsed, newDate, state) IN
            IF ~r.ok THEN Failure(op, r.message, state, view)
            ELSE LET out == moveMilestoneOutcome(r.milestone.id, r.newDate, state, clock)
                 IN Outcome(op, r.milestone.id, Some(r.newDate), out.result, out.state, view,
                            out.checked, out.applied)
      [] parsed.action = "what_if" ->
            LET r == resolveTarget(parsed, newDate, state) IN
            IF ~r.ok THEN Failure(op, r.message, state, view)
            ELSE LET out == whatIf(r.milestone, r.newDate, state, clock)
                 IN Outcome(op, r.milestone.id, Some(r.newDate), out.result, out.state, view,
                            TRUE, FALSE)
      [] parsed.action = "late" ->
            LET lateMilestones ==
                    SelectSeq(state.milestones,
                              LAMBDA m : /\ m.scheduledDate # None
                                         /\ isBefore(m.scheduledDate[1], clock)
                                         /\ m.status # "completed")
            IN Outcome(op, "", None,
                       IF Len(lateMilestones) = 0
                       THEN Result(TRUE, "Nothing is currently late!", None)
                       ELSE Result(TRUE, ToString(Len(lateMilestones))
                                             \o " item(s) are past their scheduled date: "
                                             \o lateItems(lateMilestones, state), None),
                       state, view, FALSE, FALSE)
      [] parsed.action = "blocking" ->
            LET target == IF parsed.target = None THEN <<>> ELSE parsed.target[1]
                ei == findEpisode(state, target)
            IN IF ei = 0 THEN Failure(op, "Episode " \o Str(target) \o " not found", state, view)
               ELSE LET incomplete ==
                            SelectSeq(state.milestones,
                                      LAMBDA m : /\ m.episodeId = state.episodes[ei].id
                                                 /\ m.status # "completed")
                        \* state.workItems is [] in every store state: no pending work
                        blocking == blockers(incomplete, state)
                    IN Outcome(op, "", None,
                               IF Len(blocking) = 0
                               THEN Result(TRUE, "Nothing is blocking "
                                                     \o Str(state.episodes[ei].number) \o "!", None)
                               ELSE Result(TRUE, Str(state.episodes[ei].number)
                                                     \o " is waiting on: " \o join(blocking), None),
                               state, view, FALSE, FALSE)
      [] parsed.action = "show" ->
            LET target == IF parsed.target = None THEN <<>> ELSE toLowerCase(parsed.target[1])
                epMatch == RegexMatch(target, RCap(1, Number))
                ei == IF epMatch = None THEN 0 ELSE findEpisode(state, epMatch[1].group[1][1])
            IN IF IncludesSub(target, <<"t","h","i","s"," ","w","e","e","k">>)
               THEN Outcome(op, "", None, Result(TRUE, "Showing this week", None), state,
                            [view EXCEPT !.dateRange = [start |-> startOfWeek(clock),
                                                        end |-> endOfWeek(clock)]],
                            FALSE, FALSE)
               ELSE IF IncludesSub(target, <<"n","e","x","t"," ","w","e","e","k">>)
               THEN Outcome(op, "", None, Result(TRUE, "Showing next week", None), state,
                            [view EXCEPT !.dateRange = [start |-> startOfWeek(addWeeks(clock, 1)),
                                                        end |-> endOfWeek(addWeeks(clock, 1))]],
                            FALSE, FALSE)
               ELSE IF ei # 0
               THEN Outcome(op, "", None,
                            Result(TRUE, "Selected episode " \o Str(state.episodes[ei].number), None),
                            state, [view EXCEPT !.selectedEpisodeId = Some(state.episodes[ei].id)],
                            FALSE, FALSE)
               ELSE Failure(op, "Not sure what to show: " \o Str(target), state, view)
      [] OTHER -> Failure(op, "I didn't understand that", state, view)

\* what api.command answers
ApiResponses ==
    {[success |-> TRUE, response |-> "done", changes |-> 1, clarificationNeeded |-> None],
     [success |-> TRUE, response |-> "nothing to do", changes |-> 0, clarificationNeeded |-> None],
     [success |-> FALSE, response |-> "unclear", changes |-> 0,
      clarificationNeeded |-> Some("Which episode?")]}

\* the result processCommand builds from the response
remoteResult(response) ==
    Result(response.success, response.response,
           IF response.clarificationNeeded # None
           THEN Some(<< [type |-> "resource", severity |-> "warning",
                         message |-> [text |-> response.clarificationNeeded[1], code |-> "",
                                      other |-> "", date |-> None],
                         affectedMilestones |-> <<>>] >>)
           ELSE None)

\* a real project is loaded: the command goes to the backend
isRemote == currentProject # None /\ currentProject[1] # DemoProjectId

\* processCommand(input)
processCommand(input) ==
    IF isRemote
    THEN /\ Cardinality(tasks) < MaxTasks
         /\ tasks' = tasks \cup {[NoTask EXCEPT !.fn = "processCommand", !.at = "api.command",
                                                !.projectId = currentProject[1]]}
         /\ last' = Plain("processCommand")
         /\ UNCHANGED <<currentProject, episodes, milestones, milestoneTypes, ui, now, uuids>>
    ELSE \E out \in {processCommandLocal(parsedCommands[input], dateReferences[input][now],
                                             StoreState, ui, now)} :
            /\ milestones' = out.state.milestones
            /\ episodes' = out.state.episodes
            /\ milestoneTypes' = out.state.milestoneTypes
            /\ ui' = out.view
            /\ last' = [Call(out.op, out.id, out.date, out.result, out.checked, out.applied)
                            EXCEPT !.input = input]
            /\ UNCHANGED <<currentProject, now, uuids, tasks>>

ProcessCommand == \E input \in CommandTexts : processCommand(input)

\* api.command answered: refresh when the command made changes, then return
ProcessCommandResolved ==
    \E t \in tasks, response \in ApiResponses :
        /\ t.fn = "processCommand"
        /\ IF response.success /\ response.changes > 0
           THEN /\ tasks' = (tasks \ {t}) \cup
                                {FetchTask(t.projectId, "processCommand", <<remoteResult(response)>>)}
                /\ last' = Plain("processCommand.refresh")
           ELSE /\ tasks' = tasks \ {t}
                /\ last' = Call("processCommand.resolved", "", None, remoteResult(response),
                                FALSE, FALSE)
        /\ UNCHANGED <<currentProject, episodes, milestones, milestoneTypes, ui, now, uuids>>

\* api.command threw
ProcessCommandFailed ==
    \E t \in tasks :
        /\ t.fn = "processCommand"
        /\ tasks' = tasks \ {t}
        /\ last' = Call("processCommand.failed", "", None,
                        Result(FALSE, "Failed to process command", None), FALSE, FALSE)
        /\ UNCHANGED <<currentProject, episodes, milestones, milestoneTypes, ui, now, uuids>>

Next ==
    \/ UpdateMilestone
    \/ MoveMilestone
    \/ CreateMilestone
    \/ LoadDemoData
    \/ LoadProject
    \/ FetchProjectData
    \/ FetchProjectDataResolved
    \/ FetchProjectDataFailed
    \/ CreateProjectFromOnboarding
    \/ CreateProjectStep
    \/ CreateProjectFailed
    \/ ProcessCommand
    \/ ProcessCommandResolved
    \/ ProcessCommandFailed

Spec == Init /\ [][Next]_vars

(***************************************************************************)
(* The parsers on their own: parseCommand and parseDateReference applied   *)
(* to texts, with the clock anywhere in two weeks around the new year      *)
(***************************************************************************)
\* the reference dates: 30 December 2023 to 7 January 2024 plus MaxReferenceDay
ReferenceDates == (-8)..MaxReferenceDay

\* the date texts parseDateReference is applied to
DateTexts ==
    {<<"F","r","i","d","a","y">>,
     <<"f","r","i","d","a","y">>,
     <<"n","e","x","t"," ","F","r","i","d","a","y">>,
     <<"M","o","n","d","a","y">>,
     <<"n","e","x","t"," ","m","o","n","d","a","y">>,
     <<"s","u","n","d","a","y">>,
     <<"T","u","e","s","d","a","y">>,
     <<"w","e","d","n","e","s","d","a","y">>,
     <<"T","H","U","R","S","D","A","Y">>,
     <<"s","a","t","u","r","d","a","y">>,
     <<"t","h","i","s"," ","s","u","n","d","a","y"," ","o","r"," ","m","o","n","d","a","y">>,
     <<"n","e","x","t"," ","w","e","e","k">>,
     <<"1","2","/","2","0">>,
     <<"2","/","1","5","/","2","4">>,
     <<"2","/","1","5","/","2","0","2","4">>,
     <<"1","/","6">>,
     <<"1","3","/","4","5">>,
     <<"g","i","b","b","e","r","i","s","h">>,
     <<"s","o","m","e","d","a","y">>,
     <<"s","o","o","n">>,
     <<"2","0","2","4","-","0","2","-","1","5">>,
     <<"t","o","d","a","y">>,
     <<"T","o","m","o","r","r","o","w">>,
     <<" ","y","e","s","t","e","r","d","a","y"," ">>,
     <<"t","o"," ","d","a","y">>,
     <<"F","r","i","d","a","y"," ","1","2","/","2","0">>,
     <<"n","e","x","t"," ","w","e","e","k"," ","1","/","6">>,
     <<"f","r","i","d","a","y"," ","n","e","x","t"," ","w","e","e","k">>,
     <<"t","o","d","a","y"," ","1","/","6">>,
     <<"2","0","2","4","-","0","2","-","1","5"," ","m","o","n","d","a","y">>}

\* parseDateReference(dateStr, referenceDate), for each text and reference date
resolved ==
    [dateStr \in DateTexts |->
        [referenceDate \in ReferenceDates |-> parseDateReference(dateStr, referenceDate)]]

ParserInit ==
    /\ now \in ReferenceDates
    /\ currentProject = None
    /\ episodes = <<>>
    /\ milestones = <<>>
    /\ milestoneTypes = <<>>
    /\ ui = [selectedEpisodeId |-> None,
             dateRange |-> [start |-> startOfWeek(now), end |-> endOfWeek(addWeeks(now, 8))],
             isLoading |-> FALSE, isSaving |-> FALSE, error |-> None, showOnboarding |-> FALSE]
    /\ uuids = 0
    /\ tasks = {}
    /\ last = Plain("init")

\* parseCommand(input)
ParseCommand ==
    \E input \in ParserTexts :
        /\ last' = [op |-> "parseCommand", input |-> input, parsed |-> parsedCommands[input]]
        /\ UNCHANGED <<currentProject, episodes, milestones, milestoneTypes, ui, now, uuids, tasks>>

\* parseDateReference(dateStr), the reference date being the clock
ParseDateReference ==
    \E dateStr \in DateTexts :
        /\ last' = [op |-> "parseDateReference", input |-> dateStr, referenceDate |-> now,
                    date |-> resolved[dateStr][now]]
        /\ UNCHANGED <<currentProject, episodes, milestones, milestoneTypes, ui, now, uuids, tasks>>

ParserNext == ParseCommand \/ ParseDateReference

ParserSpec == ParserInit /\ [][ParserNext]_vars

(***************************************************************************)
(* The command bar in demo mode: processCommand applied to every text, on   *)
(* the empty store and on the demo project                                  *)
(***************************************************************************)
ProcessCommandDemo == \E input \in ParserTexts : processCommand(input)

DemoSpec == Init /\ [][LoadDemoData \/ ProcessCommandDemo]_vars

(***************************************************************************)
(* Properties                                                              *)
(***************************************************************************)
\* the last step was a call of moveMilestone, made directly or by the 'move' command
MoveCalled == last.op \in {"moveMilestone", "processCommand.move"} /\ last.id # ""

\* the last step was the what_if command on a resolved episode, type and date
WhatIfCalled == last.op = "processCommand.what_if" /\ last.checked

\* the conflict list a result carries
listed(result) == IF result.conflicts = None THEN <<>> ELSE result.conflicts[1]

errorsOf(conflicts) == SelectSeq(conflicts, LAMBDA c : c.severity = "error")
warningsOf(conflicts) == SelectSeq(conflicts, LAMBDA c : c.severity = "warning")

\* the positions of the milestones with this id
withId(ms, id) == {k \in 1..Len(ms) : ms[k].id = id}

\* the catalog entry of a milestone
typeOf(types, m) ==
    IF \E t \in 1..Len(types) : types[t].id = m.milestoneTypeId
    THEN types[CHOOSE t \in 1..Len(types) : types[t].id = m.milestoneTypeId]
    ELSE MType(m.milestoneTypeId, "", <<>>)

\* the scheduled milestones of the episode of m whose type has this code
scheduledOfCode(ms, types, m, code) ==
    {p \in 1..Len(ms) :
        /\ ms[p].episodeId = m.episodeId
        /\ ms[p].scheduledDate # None
        /\ \E t \in 1..Len(types) : types[t].code = code /\ types[t].id = ms[p].milestoneTypeId}

\* the episode of m holds at most one milestone of each type
onePerType(ms, m) ==
    \E mine \in {{p \in 1..Len(ms) : ms[p].episodeId = m.episodeId}} :
        Cardinality({ms[p].milestoneTypeId : p \in mine}) = Cardinality(mine)

\* the milestone list after the date of the milestone id was set at time clock
dated(ms, id, date, clock) ==
    [k \in 1..Len(ms) |->
        IF ms[k].id = id THEN [ms[k] EXCEPT !.scheduledDate = date, !.updatedAt = clock]
        ELSE ms[k]]

\* C1: a moveMilestone call that returns success=false (unknown id, or an error
\* conflict) leaves the milestone list exactly as it was, and the same call made
\* again returns the same result and leaves the same list.
C1_RejectedMoveChangesNothing ==
    [][(MoveCalled' /\ ~last'.result.success) =>
            /\ milestones' = milestones
            /\ LET again == moveMilestoneOutcome(last'.id, last'.date[1],
                                [episodes |-> episodes', milestones |-> milestones',
                                 milestoneTypes |-> milestoneTypes'], now')
               IN again.result = last'.result /\ again.state.milestones = milestones']_vars

C1_Witness ==
    /\ MoveCalled /\ ~last.result.success /\ last.checked
    /\ errorsOf(listed(last.result)) # <<>>
    /\ \E k \in withId(milestones, last.id) : milestones[k].scheduledDate # last.date

\* C2: after a moveMilestone call that returned success=true, with or without
\* warnings, the target milestone is in the store and its scheduledDate is the
\* requested date.
C2_SuccessfulMoveSetsDate ==
    (MoveCalled /\ last.result.success) =>
        /\ withId(milestones, last.id) # {}
        /\ \A k \in withId(milestones, last.id) : milestones[k].scheduledDate = last.date

C2_Witness ==
    /\ MoveCalled /\ last.result.success /\ last.result.conflicts = None
    /\ currentProject = Some(DemoProjectId)
    /\ last.id = "ms-ep-1-mt-ec" /\ last.date = Some(DemoTypeStride)

\* C3: a moveMilestone call on an existing milestone is rejected exactly when the
\* list checkDependencies computes for it on the state before the call holds an
\* error; the rejected result carries that whole list in its order, and a list
\* of warnings only does not block the move.
C3_RejectedIffErrorConflict ==
    [][(MoveCalled' /\ last'.checked) =>
            \A k \in withId(milestones, last'.id) :
                LET found == checkDependencies(milestones[k], last'.date[1], StoreState).conflicts
                    blocked == \E i \in 1..Len(found) : found[i].severity = "error"
                IN /\ last'.result.success <=> ~blocked
                   /\ ~last'.result.success => last'.result.conflicts = Some(found)]_vars

C3_Witness ==
    /\ MoveCalled /\ ~last.result.success
    /\ Len(listed(last.result)) = 2
    /\ listed(last.result)[1].message.other = "A"
    /\ listed(last.result)[2].message.other = "B"

\* C4: the what_if command on a resolved episode, type and date changes no
\* milestone's scheduledDate, reports success=true, and carries the conflict
\* list moveMilestone would return for the same milestone, date and state; when
\* that list is empty it carries none and says there are no conflicts.
C4_WhatIfIsADryRun ==
    [][WhatIfCalled' =>
            LET move == moveMilestoneOutcome(last'.id, last'.date[1], StoreState, now).result IN
            /\ Len(milestones') = Len(milestones)
            /\ \A k \in 1..Len(milestones) :
                    milestones'[k].scheduledDate = milestones[k].scheduledDate
            /\ last'.result.success
            /\ last'.result.conflicts = move.conflicts
            /\ move.conflicts = None => last'.result.message = "would have no conflicts"]_vars

C4_Witness ==
    /\ WhatIfCalled /\ last.result.success
    /\ errorsOf(listed(last.result)) # <<>>
    /\ ~moveMilestoneOutcome(last.id, last.date[1], StoreState, now).result.success

\* C5: the list checkDependencies returns holds exactly one dependency error for
\* each prerequisite code of the milestone's type that has a milestone in the
\* same episode scheduled strictly after the proposed date, naming the moved
\* milestone and that prerequisite milestone; prerequisites scheduled on the
\* proposed date, unscheduled, or of another episode give none. Stated for
\* episodes that hold one milestone per type, where "its milestone" is defined.
C5_OneErrorPerLatePrerequisite ==
    [][last'.checked =>
            \A k \in {j \in withId(milestones, last'.id) : onePerType(milestones, milestones[j])} :
                LET m == milestones[k]
                    reqs == typeOf(milestoneTypes, m).requiresCompletionOf
                    late(i) == {p \in scheduledOfCode(milestones, milestoneTypes, m, reqs[i]) :
                                    milestones[p].scheduledDate[1] > last'.date[1]}
                    errors == errorsOf(listed(last'.result))
                IN /\ Len(errors) = Cardinality({i \in 1..Len(reqs) : late(i) # {}})
                   /\ \A i \in 1..Len(reqs) : late(i) # {} =>
                        \E j \in 1..Len(errors), p \in late(i) :
                            /\ errors[j].type = "dependency"
                            /\ errors[j].message.other = reqs[i]
                            /\ errors[j].affectedMilestones = <<m.id, milestones[p].id>>]_vars

C5_Witness ==
    /\ last.op = "processCommand.move" /\ last.id = "ms-ep-1-mt-dc"
    /\ ~last.result.success
    /\ Len(listed(last.result)) = 1
    /\ listed(last.result)[1].severity = "error"
    /\ listed(last.result)[1].message.code = "DC"
    /\ listed(last.result)[1].message.other = "EC"
    /\ listed(last.result)[1].affectedMilestones = <<"ms-ep-1-mt-dc", "ms-ep-1-mt-ec">>

\* C6: the list checkDependencies returns holds exactly one dependency warning
\* for each type that requires the moved type's code and has a milestone in the
\* same episode scheduled strictly before the proposed date; a moveMilestone
\* call whose list holds no error succeeds, sets the date and returns the list.
\* Stated for episodes that hold one milestone per type.
C6_OneWarningPerEarlyDependent ==
    [][last'.checked =>
            \A k \in {j \in withId(milestones, last'.id) : onePerType(milestones, milestones[j])} :
                LET m == milestones[k]
                    code == typeOf(milestoneTypes, m).code
                    early(t) == {p \in 1..Len(milestones) :
                                    /\ milestones[p].episodeId = m.episodeId
                                    /\ milestones[p].milestoneTypeId = milestoneTypes[t].id
                                    /\ milestones[p].scheduledDate # None
                                    /\ milestones[p].scheduledDate[1] < last'.date[1]}
                    dependents == {t \in 1..Len(milestoneTypes) :
                                    /\ Includes(milestoneTypes[t].requiresCompletionOf, code)
                                    /\ early(t) # {}}
                    warnings == warningsOf(listed(last'.result))
                IN /\ Len(warnings) = Cardinality(dependents)
                   /\ \A t \in dependents :
                        \E j \in 1..Len(warnings), p \in early(t) :
                            /\ warnings[j].type = "dependency"
                            /\ warnings[j].affectedMilestones = <<m.id, milestones[p].id>>
                   /\ (MoveCalled' /\ errorsOf(listed(last'.result)) = <<>>) =>
                        /\ last'.result.success
                        /\ Len(listed(last'.result)) = Len(warnings)
                        /\ \A j \in withId(milestones', last'.id) :
                                milestones'[j].scheduledDate = last'.date]_vars

C6_Witness ==
    /\ last.op = "processCommand.move" /\ last.id = "ms-ep-1-mt-ec"
    /\ last.result.success /\ last.applied
    /\ Len(listed(last.result)) = 1
    /\ listed(last.result)[1].severity = "warning"
    /\ listed(last.result)[1].affectedMilestones = <<"ms-ep-1-mt-ec", "ms-ep-1-mt-dc">>
    /\ \E k \in withId(milestones, last.id) : milestones[k].scheduledDate = last.date

\* C7: every change of the scheduledDate of a milestone that stays in the store
\* is the Apply step of a moveMilestone call on that milestone whose dependency
\* check found no error; in particular updateMilestone changes no scheduledDate.
C7_OnlyMoveChangesDates ==
    [][\A k \in 1..Len(milestones), j \in 1..Len(milestones') :
            (/\ milestones'[j].id = milestones[k].id
             /\ milestones'[j].scheduledDate # milestones[k].scheduledDate) =>
                /\ MoveCalled' /\ last'.applied /\ last'.id = milestones[k].id
                /\ errorsOf(listed(last'.result)) = <<>>]_vars

\* C8: a call that runs checkDependencies leaves episodes and milestoneTypes as
\* they were, and leaves milestones as they were except for what the Apply step
\* of moveMilestone writes afterwards.
C8_CheckerMutatesNothing ==
    [][last'.checked =>
            /\ episodes' = episodes
            /\ milestoneTypes' = milestoneTypes
            /\ milestones' = IF last'.applied
                             THEN dated(milestones, last'.id, last'.date, now)
                             ELSE milestones]_vars

C8_Witness ==
    /\ WhatIfCalled
    /\ listed(last.result) # <<>>
    /\ errorsOf(listed(last.result)) = <<>>
    /\ \E k \in withId(milestones, "ms-ep-1-mt-dc") :
            milestones[k].scheduledDate[1] < last.date[1]

\* C9: no reachable store state holds a catalog whose prerequisite relation has
\* a cycle: there is no non-empty set of codes each of which requires a code of
\* the set.
C9_CatalogAcyclic ==
    LET codes == {milestoneTypes[t].code : t \in 1..Len(milestoneTypes)} IN
    \A S \in (SUBSET codes) \ {{}} :
        \E c \in S :
            \A t \in 1..Len(milestoneTypes) :
                milestoneTypes[t].code = c =>
                    \A i \in 1..Len(milestoneTypes[t].requiresCompletionOf) :
                        milestoneTypes[t].requiresCompletionOf[i] \notin S

\* C10: no moveMilestone call is ever suspended between its check and its Apply
\* step; each call returns the list checkDependencies computes on the state the
\* step started from, writes to that same state, and ends either applied with
\* success or rejected with nothing written.
C10_MoveIsAtomic ==
    [][/\ \A t \in tasks' : t.fn # "moveMilestone"
       /\ (MoveCalled' /\ last'.checked) =>
            \A k \in withId(milestones, last'.id) :
                /\ listed(last'.result)
                        = checkDependencies(milestones[k], last'.date[1], StoreState).conflicts
                /\ last'.applied <=> last'.result.success
                /\ milestones' = IF last'.result.success
                                 THEN dated(milestones, last'.id, last'.date, now)
                                 ELSE milestones]_vars

C10_Witness ==
    /\ MoveCalled /\ last.applied
    /\ \E t \in tasks : t.fn = "fetchProjectData"
    /\ \E k \in withId(milestones, last.id) : milestones[k].scheduledDate = last.date

\* C11: when an external collaborator fails, the store operation that awaited
\* it reports a failure: processCommand returns success=false, loadProject sets
\* a non-null error and createProjectFromOnboarding signals an error, and the
\* store's project data is not replaced by other data.
C11_CollaboratorFailureIsReported ==
    [][\A t \in tasks \ tasks' :
            /\ last'.op = "processCommand.failed" => ~last'.result.success
            /\ (last'.op = "fetchProjectData.failed" /\ t.caller = "loadProject") =>
                    /\ ui'.error # None
                    /\ <<currentProject, episodes, milestones, milestoneTypes>>'
                            = <<currentProject, episodes, milestones, milestoneTypes>>
            /\ last'.op = "createProjectFromOnboarding.failed" =>
                    /\ ui'.error # None
                    /\ <<currentProject, episodes, milestones, milestoneTypes>>'
                            = <<currentProject, episodes, milestones, milestoneTypes>>]_vars

\* the day names a text holds, as positions of daysOfWeek
namedDays(text) == {n \in 1..Len(daysOfWeek) : IncludesSub(toLowerCase(text), daysOfWeek[n])}
saysNext(text) == IncludesSub(toLowerCase(text), <<"n","e","x","t">>)

\* the first date from `from` on whose weekday is the n-th of daysOfWeek
firstWeekdayFrom(from, n) == CHOOSE d \in from..(from + 6) : getDay(d) = n - 1

\* C12 as claimed: a text naming one day of the week resolves to the first date
\* on or after the reference date that falls on that day (the reference date
\* itself when it falls on that day), a week later when the text says 'next'.
C12_FirstOnOrAfter ==
    last.op = "parseDateReference" =>
        \A n \in namedDays(last.input) :
            namedDays(last.input) = {n} =>
                last.date = Some(firstWeekdayFrom(last.referenceDate, n)
                                    + (IF saysNext(last.input) THEN 7 ELSE 0))

\* C12 amended: a text naming one day of the week resolves to the first date
\* strictly after the reference date that falls on that day (a week after the
\* reference date when it falls on that day; reference + 4 days for 'Friday'
\* from a Monday), and a week later than that when the text says 'next'.
C12_FirstStrictlyAfter ==
    last.op = "parseDateReference" =>
        \A n \in namedDays(last.input) :
            namedDays(last.input) = {n} =>
                last.date = Some(firstWeekdayFrom(last.referenceDate + 1, n)
                                    + (IF saysNext(last.input) THEN 7 ELSE 0))

C12_Witness ==
    /\ last.op = "parseDateReference"
    /\ last.input = <<"F","r","i","d","a","y">>
    /\ getDay(last.referenceDate) = 1
    /\ last.date = Some(last.referenceDate + 4)

\* a date text of none of the forms parseDateReference knows: no keyword, no
\* day name, no 'next week', no slash date, no ISO date
unrecognised(text) ==
    /\ trim(toLowerCase(text)) \notin {<<"t","o","d","a","y">>, <<"t","o","m","o","r","r","o","w">>,
                                        <<"y","e","s","t","e","r","d","a","y">>}
    /\ namedDays(text) = {}
    /\ ~IncludesSub(toLowerCase(text), <<"n","e","x","t"," ","w","e","e","k">>)
    /\ RegexMatch(trim(toLowerCase(text)), slashRegex) = None
    /\ parseISO(trim(toLowerCase(text))) = None

unrecognisedTexts ==
    {dateStr \in DateTexts \cup {parsedCommands[input].params.newDate : input \in CommandTexts} :
        unrecognised(dateStr)}

\* C13: parseDateReference returns null for every text of none of the forms it
\* knows ('gibberish'), whatever the reference date; a move or what-if command
\* with such a date text fails, changes nothing in the store, and, when its
\* episode, type and milestone resolve, answers that it could not understand
\* the date.
C13_UnknownDateIsNone ==
    [][/\ \A dateStr \in unrecognisedTexts \cap DateTexts, d \in ReferenceDates :
                resolved[dateStr][d] = None
       /\ (/\ last'.op \in {"processCommand.move", "processCommand.what_if"}
           /\ parsedCommands[last'.input].params.newDate \in unrecognisedTexts) =>
                /\ dateReferences[last'.input][now] = None
                /\ ~last'.result.success
                /\ ~last'.checked /\ ~last'.applied
                /\ <<episodes, milestones, milestoneTypes>>' = <<episodes, milestones, milestoneTypes>>
                /\ resolveTarget(parsedCommands[last'.input], Some(now), StoreState).ok =>
                        last'.result.message = "Couldn't understand date: "
                            \o Str(parsedCommands[last'.input].params.newDate)]_vars

C13_Witness ==
    /\ last.op = "processCommand.move"
    /\ last.input = texts.moveDcSomeday
    /\ milestones # <<>>
    /\ ~last.result.success
    /\ last.result.message = "Couldn't understand date: someday"

\* the parts of a text between its slashes
RECURSIVE splitSlash(_)
splitSlash(text) ==
    IF \A k \in 1..Len(text) : text[k] # "/" THEN <<text>>
    ELSE <<SubSeq(text, 1, FindIndex([k \in 1..Len(text) |-> text[k] = "/"]) - 1)>>
            \o splitSlash(SubSeq(text, FindIndex([k \in 1..Len(text) |-> text[k] = "/"]) + 1, Len(text)))

allDigits(text) == text # <<>> /\ \A k \in 1..Len(text) : text[k] \in DigitChars

\* a text M/D, M/D/YY or M/D/YYYY that names a day of the calendar
isSlashDate(text, year) ==
    /\ Len(splitSlash(text)) \in {2, 3}
    /\ \A k \in 1..Len(splitSlash(text)) : allDigits(splitSlash(text)[k])
    /\ Len(splitSlash(text)[1]) \in {1, 2} /\ Len(splitSlash(text)[2]) \in {1, 2}
    /\ Len(splitSlash(text)) = 3 => Len(splitSlash(text)[3]) \in {2, 4}
    /\ parseInt(splitSlash(text)[1]) \in 1..12
    /\ parseInt(splitSlash(text)[2]) \in 1..DaysInMonth(year, parseInt(splitSlash(text)[1]) - 1)

\* the year a slash date is of: the reference year, 2000 + YY, or YYYY
slashYear(text, referenceDate) ==
    IF Len(splitSlash(text)) < 3 THEN getFullYear(referenceDate)
    ELSE IF Len(splitSlash(text)[3]) = 2 THEN 2000 + parseInt(splitSlash(text)[3])
    ELSE parseInt(splitSlash(text)[3])

\* C14: a slash date M/D, M/D/YY or M/D/YYYY that names a day of the calendar
\* resolves to day D of month M of the reference date's year, of 2000 + YY, or
\* of YYYY; '12/20' with reference date 2024-01-01 resolves to 2024-12-20.
C14_SlashDate ==
    (/\ last.op = "parseDateReference"
     /\ isSlashDate(last.input, slashYear(last.input, last.referenceDate))) =>
        last.date = Some(AbsoluteDay(slashYear(last.input, last.referenceDate),
                                     parseInt(splitSlash(last.input)[1]) - 1,
                                     parseInt(splitSlash(last.input)[2]))
                            - AbsoluteDay(Epoch.year, Epoch.month, Epoch.day))

C14_Witness ==
    /\ last.op = "parseDateReference"
    /\ last.input = <<"1","2","/","2","0">>
    /\ last.referenceDate = AbsoluteDay(2024, 0, 1) - AbsoluteDay(Epoch.year, Epoch.month, Epoch.day)
    /\ last.date = Some(AbsoluteDay(2024, 11, 20) - AbsoluteDay(Epoch.year, Epoch.month, Epoch.day))

\* the words of a text: its parts between single spaces
RECURSIVE words(_)
words(text) ==
    IF \A k \in 1..Len(text) : text[k] # " " THEN <<text>>
    ELSE <<SubSeq(text, 1, FindIndex([k \in 1..Len(text) |-> text[k] = " "]) - 1)>>
            \o words(SubSeq(text, FindIndex([k \in 1..Len(text) |-> text[k] = " "]) + 1, Len(text)))

\* a text 'move <digits> <word> to <dateText>', whatever the case of 'move'
isMoveForm(text) ==
    /\ Len(words(text)) >= 5
    /\ toLowerCase(words(text)[1]) = <<"m","o","v","e">>
    /\ allDigits(words(text)[2])
    /\ words(text)[3] # <<>> /\ \A k \in 1..Len(words(text)[3]) : words(text)[3][k] \in WordChars
    /\ words(text)[4] = <<"t","o">>
    /\ words(text)[5] # <<>> /\ text[Len(text)] # " "

\* the <dateText> of such a text, as typed
dateTextOf(text) ==
    SubSeq(text, Len(words(text)[1]) + Len(words(text)[2]) + Len(words(text)[3]) + 7, Len(text))

\* C15 as claimed: 'move <digits> <word> to <dateText>' parses to a move whose
\* target is the digits, whose code is the word in upper case and whose date
\* text is the date text as typed.
C15_DateTextAsTyped ==
    (last.op = "parseCommand" /\ isMoveForm(last.input)) =>
        /\ last.parsed.action = "move"
        /\ last.parsed.target = Some(words(last.input)[2])
        /\ last.parsed.params.milestoneCode = Str(toUpperCase(words(last.input)[3]))
        /\ last.parsed.params.newDate = dateTextOf(last.input)

\* C15 amended: 'move <digits> <word> to <dateText>' parses to a move whose
\* target is the digits, whose code is the word in upper case and whose date
\* text is the date text converted to lower case ('move 304 lock to Friday'
\* gives '304', 'LOCK', 'friday').
C15_DateTextLowered ==
    (last.op = "parseCommand" /\ isMoveForm(last.input)) =>
        /\ last.parsed.action = "move"
        /\ last.parsed.target = Some(words(last.input)[2])
        /\ last.parsed.params.milestoneCode = Str(toUpperCase(words(last.input)[3]))
        /\ last.parsed.params.newDate = toLowerCase(dateTextOf(last.input))

C15_Witness ==
    /\ last.op = "parseCommand"
    /\ last.input = texts.moveLockFriday
    /\ last.parsed.action = "move"
    /\ last.parsed.target = Some(<<"3","0","4">>)
    /\ last.parsed.params.milestoneCode = "LOCK"
    /\ last.parsed.params.newDate = <<"f","r","i","d","a","y">>

\* the patterns of parseCommand in the order it tries them
patterns ==
    << [action |-> "move", re |-> moveRegex], [action |-> "what_if", re |-> whatIfRegex],
       [action |-> "show", re |-> showRegex], [action |-> "blocking", re |-> blockingRegex],
       [action |-> "late", re |-> lateRegex], [action |-> "list", re |-> listRegex] >>

\* the patterns a text matches as typed, case ignored
matching(text) == {k \in 1..Len(patterns) : RegexMatch(text, patterns[k].re) # None}
matchingTexts == [input \in ParserTexts |-> matching(input)]

\* C16: parseCommand returns the intent of the first of move, what-if, show,
\* blocking, late, list that the text matches, whatever its case, and unknown
\* with the raw text when it matches none; "what's late?" is late, no target.
C16_FirstPatternWins ==
    last.op = "parseCommand" =>
        /\ \A k \in matchingTexts[last.input] :
                (\A j \in matchingTexts[last.input] : k <= j) =>
                    last.parsed.action = patterns[k].action
        /\ matchingTexts[last.input] = {} =>
                /\ last.parsed.action = "unknown"
                /\ last.parsed.params.raw = last.input
        /\ last.input = texts.whatsLate =>
                last.parsed.action = "late" /\ last.parsed.target = None

C16_Witness ==
    /\ last.op = "parseCommand"
    /\ last.input = texts.whatIfThenMove
    /\ matchingTexts[last.input] = {1, 2}
    /\ last.parsed.action = "move"

Min(S) == CHOOSE x \in S : \A y \in S : x <= y

\* the positions of the episodes whose number holds the digits
episodesHolding(eps, digits) == {e \in 1..Len(eps) : IncludesSub(eps[e].number, digits)}

\* the positions of the types with this code
typesCoded(types, code) == {k \in 1..Len(types) : types[k].code = code}

\* the message a move or what-if command that does not resolve is answered with,
\* "" when it resolves: episode, then type, then milestone, then date
resolutionFailure(input, eps, types, ms, clock) ==
    LET parsed == parsedCommands[input]
        eh == episodesHolding(eps, parsed.target[1])
        th == typesCoded(types, parsed.params.milestoneCode)
    IN IF eh = {} THEN "Episode " \o Str(parsed.target[1]) \o " not found"
       ELSE IF th = {} THEN "Unknown milestone type: " \o parsed.params.milestoneCode
       ELSE IF \A k \in 1..Len(ms) : ~(/\ ms[k].episodeId = eps[Min(eh)].id
                                        /\ ms[k].milestoneTypeId = types[Min(th)].id)
       THEN Str(eps[Min(eh)].number) \o " doesn't have a " \o types[Min(th)].code \o " scheduled"
       ELSE IF dateReferences[input][clock] = None
       THEN "Couldn't understand date: " \o Str(parsed.params.newDate)
       ELSE ""

\* C17: a move or what-if command whose episode, type, milestone or date does
\* not resolve returns success=false with the message of that failure, runs no
\* check, and leaves every milestone as it was; a move command calls
\* moveMilestone only when all four resolved.
C17_ResolutionFailureIsAResult ==
    [][last'.op \in {"processCommand.move", "processCommand.what_if"} =>
            /\ resolutionFailure(last'.input, episodes, milestoneTypes, milestones, now) # "" =>
                    /\ ~last'.result.success
                    /\ last'.result.message
                            = resolutionFailure(last'.input, episodes, milestoneTypes, milestones, now)
                    /\ last'.result.conflicts = None
                    /\ ~last'.checked /\ ~last'.applied /\ last'.id = ""
                    /\ milestones' = milestones
            /\ (last'.op = "processCommand.move" /\ (MoveCalled' \/ last'.checked \/ last'.applied)) =>
                    resolutionFailure(last'.input, episodes, milestoneTypes, milestones, now) = ""]_vars

C17_Witness ==
    /\ last.op = "processCommand.move"
    /\ last.input = texts.moveLockFriday
    /\ milestones # <<>>
    /\ ~last.result.success
    /\ last.result.message = "Unknown milestone type: LOCK"

\* C18: the episode a command refers to is the first of the store's episode
\* list whose number holds the reference digits: the milestone a move or
\* what-if command is about is of that episode, the blocking command reports
\* on that episode, and the show command selects it.
C18_FirstEpisodeHoldingDigits ==
    [][(/\ last'.op \in {"processCommand.move", "processCommand.what_if",
                         "processCommand.blocking", "processCommand.show"}
        /\ parsedCommands[last'.input].target # None
        /\ allDigits(parsedCommands[last'.input].target[1])
        /\ episodesHolding(episodes, parsedCommands[last'.input].target[1]) # {}) =>
            \E ep \in {episodes[Min(episodesHolding(episodes, parsedCommands[last'.input].target[1]))]} :
               /\ last'.op \in {"processCommand.move", "processCommand.what_if"} =>
                    IF resolutionFailure(last'.input, episodes, milestoneTypes, milestones, now) = ""
                    THEN \E k \in withId(milestones, last'.id) : milestones[k].episodeId = ep.id
                    ELSE last'.result.message
                            = resolutionFailure(last'.input, episodes, milestoneTypes, milestones, now)
               /\ last'.op = "processCommand.blocking" =>
                    \E state \in {StoreState},
                       incomplete \in {SelectSeq(milestones, LAMBDA m : /\ m.episodeId = ep.id
                                                                        /\ m.status # "completed")} :
                    \E blocking \in {blockers(incomplete, state)} :
                        last'.result.message
                            = IF blocking = <<>>
                              THEN "Nothing is blocking " \o Str(ep.number) \o "!"
                              ELSE Str(ep.number) \o " is waiting on: " \o join(blocking)
               /\ last'.op = "processCommand.show" =>
                    /\ ui'.selectedEpisodeId = Some(ep.id)
                    /\ last'.result.message = "Selected episode " \o Str(ep.number)]_vars

C18_Witness ==
    /\ last.op = "processCommand.show"
    /\ last.input = texts.show30
    /\ Cardinality(episodesHolding(episodes, <<"3","0">>)) > 1
    /\ episodes[1].number = <<"3","0","1">>
    /\ ui.selectedEpisodeId = Some(episodes[1].id)

\* the place of a conflict in the order of the two passes: an error by the
\* position of its prerequisite code in requiresCompletionOf, a warning after
\* every error, by the position of its dependent type in the catalog
rank(conflict, reqs, types, ms) ==
    IF conflict.severity = "error"
    THEN FindIndex([n \in 1..Len(reqs) |-> reqs[n] = conflict.message.other])
    ELSE Len(reqs)
            + FindIndex([n \in 1..Len(types) |->
                            \E p \in withId(ms, conflict.affectedMilestones[2]) :
                                ms[p].milestoneTypeId = types[n].id])

\* C19: the list checkDependencies returns is in one fixed order, so that equal
\* milestone, date and state give the same list: every prerequisite error comes
\* before every dependent warning, the errors follow the order of the moved
\* type's requiresCompletionOf, and the warnings follow the order of the
\* catalog's type list; no conflict is listed twice.
C19_ConflictsInPassOrder ==
    [][last'.checked =>
            \A k \in withId(milestones, last'.id) :
                \E reqs \in {typeOf(milestoneTypes, milestones[k]).requiresCompletionOf},
                   cs \in {listed(last'.result)} :
                    \A i, j \in 1..Len(cs) :
                        i < j => rank(cs[i], reqs, milestoneTypes, milestones)
                                    < rank(cs[j], reqs, milestoneTypes, milestones)]_vars

C19_Witness ==
    /\ last.op = "processCommand.what_if"
    /\ last.input = texts.whatIfDcJan22
    /\ Len(listed(last.result)) = 2
    /\ listed(last.result)[1].severity = "error"
    /\ listed(last.result)[1].message.other = "EC"
    /\ listed(last.result)[2].severity = "warning"
    /\ listed(last.result)[2].message.code = "NC1"

\* type a is a direct prerequisite or a direct dependent of type b
neighbours(a, b) ==
    \/ Includes(b.requiresCompletionOf, a.code)
    \/ Includes(a.requiresCompletionOf, b.code)

\* C20: every conflict checkDependencies returns names the moved milestone and
\* a milestone of the same episode whose type is a direct prerequisite or a
\* direct dependent of the moved type, so that a milestone linked only through
\* a type in between is named by no conflict, whatever its date; and a move
\* that no direct prerequisite is scheduled after is applied.
C20_DirectNeighboursOnly ==
    [][last'.checked =>
            \A k \in {j \in withId(milestones, last'.id) : onePerType(milestones, milestones[j])} :
                \E m \in {milestones[k]}, cs \in {listed(last'.result)},
                   mt \in {typeOf(milestoneTypes, milestones[k])} :
                    /\ \A c \in 1..Len(cs) :
                        /\ cs[c].affectedMilestones[1] = m.id
                        /\ \E p \in withId(milestones, cs[c].affectedMilestones[2]) :
                            /\ milestones[p].episodeId = m.episodeId
                            /\ \E n \in 1..Len(milestoneTypes) :
                                /\ milestoneTypes[n].id = milestones[p].milestoneTypeId
                                /\ neighbours(milestoneTypes[n], mt)
                    /\ (/\ MoveCalled'
                        /\ \A i \in 1..Len(mt.requiresCompletionOf) :
                            \A p \in scheduledOfCode(milestones, milestoneTypes, m,
                                                      mt.requiresCompletionOf[i]) :
                                milestones[p].scheduledDate[1] <= last'.date[1]) =>
                            /\ last'.result.success /\ last'.applied
                            /\ \A j \in withId(milestones', last'.id) :
                                    milestones'[j].scheduledDate = last'.date]_vars

C20_Witness ==
    /\ last.op = "processCommand.move"
    /\ last.input = texts.moveEcJan23
    /\ last.result.success /\ last.applied
    /\ Len(listed(last.result)) = 1
    /\ listed(last.result)[1].affectedMilestones = <<"ms-ep-1-mt-ec", "ms-ep-1-mt-dc">>
    /\ \E p \in 1..Len(milestones), a, b, c \in 1..Len(milestoneTypes) :
        /\ milestoneTypes[a].code = "EC" /\ milestoneTypes[b].code = "DC"
        /\ milestoneTypes[c].code = "NC1"
        /\ neighbours(milestoneTypes[a], milestoneTypes[b])
        /\ neighbours(milestoneTypes[b], milestoneTypes[c])
        /\ ~neighbours(milestoneTypes[a], milestoneTypes[c])
        /\ milestones[p].id = "ms-ep-1-mt-nc1"
        /\ milestones[p].milestoneTypeId = milestoneTypes[c].id
        /\ milestones[p].scheduledDate # None
        /\ milestones[p].scheduledDate[1] < last.date[1]

\* the days a keyword text is from the reference date: <<>> for any other text
keywordOffset(text) ==
    LET normalized == trim(toLowerCase(text))
    IN IF normalized = <<"t","o","d","a","y">> THEN Some(0)
       ELSE IF normalized = <<"t","o","m","o","r","r","o","w">> THEN Some(1)
       ELSE IF normalized = <<"y","e","s","t","e","r","d","a","y">> THEN Some(-1)
       ELSE None

saysNextWeek(text) == IncludesSub(toLowerCase(text), <<"n","e","x","t"," ","w","e","e","k">>)

\* the text holds digits, a slash and digits
holdsSlashDate(text) ==
    \E i \in 2..(Len(text) - 1) :
        text[i] = "/" /\ text[i - 1] \in DigitChars /\ text[i + 1] \in DigitChars

\* a text YYYY-MM-DD that names a day of the calendar
isCalendarDate(text) ==
    /\ Len(text) = 10 /\ text[5] = "-" /\ text[8] = "-"
    /\ allDigits(SubSeq(text, 1, 4)) /\ allDigits(SubSeq(text, 6, 7)) /\ allDigits(SubSeq(text, 9, 10))
    /\ parseInt(SubSeq(text, 6, 7)) \in 1..12
    /\ parseInt(SubSeq(text, 9, 10))
            \in 1..DaysInMonth(parseInt(SubSeq(text, 1, 4)), parseInt(SubSeq(text, 6, 7)) - 1)

\* C21: parseDateReference resolves a text by the first form it is of, in the
\* order keyword (today, tomorrow, yesterday: the reference date, a day after,
\* a day before), day-of-week name, 'next week' (the reference date + 7 days),
\* slash date, calendar date: a text naming a day of the week resolves by that
\* day even when it also holds 'next week', a slash date or a calendar date,
\* and a text holding 'next week' and a slash date resolves by 'next week'.
C21_FirstFormWins ==
    last.op = "parseDateReference" =>
        IF keywordOffset(last.input) # None
        THEN last.date = Some(last.referenceDate + keywordOffset(last.input)[1])
        ELSE IF namedDays(last.input) # {}
        THEN last.date = Some(firstWeekdayFrom(last.referenceDate + 1, Min(namedDays(last.input)))
                                + (IF saysNext(last.input) THEN 7 ELSE 0))
        ELSE IF saysNextWeek(last.input)
        THEN last.date = Some(last.referenceDate + 7)
        ELSE IF holdsSlashDate(last.input)
        THEN /\ last.date # None
             /\ isSlashDate(last.input, slashYear(last.input, last.referenceDate)) =>
                    last.date = Some(AbsoluteDay(slashYear(last.input, last.referenceDate),
                                                 parseInt(splitSlash(last.input)[1]) - 1,
                                                 parseInt(splitSlash(last.input)[2]))
                                        - AbsoluteDay(Epoch.year, Epoch.month, Epoch.day))
        ELSE isCalendarDate(last.input) =>
                last.date = Some(AbsoluteDay(parseInt(SubSeq(last.input, 1, 4)),
                                             parseInt(SubSeq(last.input, 6, 7)) - 1,
                                             parseInt(SubSeq(last.input, 9, 10)))
                                    - AbsoluteDay(Epoch.year, Epoch.month, Epoch.day))

C21_Witness ==
    /\ last.op = "parseDateReference"
    /\ last.input = <<"F","r","i","d","a","y"," ","1","2","/","2","0">>
    /\ namedDays(last.input) = {6} /\ holdsSlashDate(last.input)
    /\ getDay(last.referenceDate) = 1
    /\ last.date = Some(last.referenceDate + 4)

\* C22: a moveMilestone call that returns success=true leaves the list of
\* milestone ids as it was, leaves every milestone of another id as it was, and
\* changes of the milestone of the given id at most scheduledDate and
\* updatedAt: its episodeId, milestoneTypeId, status and notes stay; and no
\* move, what-if or query removes or adds a milestone.
C22_MoveChangesDateOnly ==
    [][LET idsOf(ms) == [k \in 1..Len(ms) |-> ms[k].id]
           engineOps == {"moveMilestone", "processCommand.move", "processCommand.what_if",
                         "processCommand.late", "processCommand.blocking", "processCommand.show",
                         "processCommand.list", "processCommand.unknown"}
       IN /\ (MoveCalled' /\ last'.result.success) =>
               /\ idsOf(milestones') = idsOf(milestones)
               /\ \A k \in 1..Len(milestones) :
                   IF milestones[k].id # last'.id
                   THEN milestones'[k] = milestones[k]
                   ELSE \A f \in DOMAIN milestones[k] \ {"scheduledDate", "updatedAt"} :
                           milestones'[k][f] = milestones[k][f]
          /\ last'.op \in engineOps => idsOf(milestones') = idsOf(milestones)]_vars

C22_Witness ==
    /\ MoveCalled /\ last.result.success /\ last.applied
    /\ Len(milestones) > 1
    /\ \E k \in withId(milestones, last.id) :
        /\ milestones[k].status = "completed"
        /\ milestones[k].scheduledDate = Some(2 * DemoTypeStride)

\* C23: in every state of the store no two milestones have the same episodeId
\* and the same milestoneTypeId; createMilestone and the loading of a project
\* keep it so.
C23_OneMilestonePerEpisodeAndType ==
    Cardinality({<<milestones[k].episodeId, milestones[k].milestoneTypeId>> :
                    k \in 1..Len(milestones)}) = Len(milestones)

\* the pairs <<p, q>> of scheduled milestones of episode ep that are out of
\* order: the type of q requires the code of the type of p, and p is dated
\* after q
outOfOrder(ms, types, ep) ==
    LET mine == {p \in 1..Len(ms) : ms[p].episodeId = ep /\ ms[p].scheduledDate # None} IN
        {pair \in mine \X mine :
            /\ ms[pair[1]].scheduledDate[1] > ms[pair[2]].scheduledDate[1]
            /\ \E b \in 1..Len(types) :
                /\ types[b].id = ms[pair[2]].milestoneTypeId
                /\ \E a \in 1..Len(types) :
                    /\ types[a].id = ms[pair[1]].milestoneTypeId
                    /\ Includes(types[b].requiresCompletionOf, types[a].code)}

\* C24 as stated: from a state in which every scheduled milestone is dated no
\* earlier than the scheduled milestone of each direct prerequisite of its
\* type, a successful move leads to a state in which that is so again.
C24_MovesKeepEveryPairOrdered ==
    [][(MoveCalled' /\ last'.result.success) =>
            \A k \in withId(milestones, last'.id) :
                outOfOrder(milestones, milestoneTypes, milestones[k].episodeId) = {}
                    => outOfOrder(milestones', milestoneTypes', milestones[k].episodeId) = {}]_vars

\* C24, amended: a successful move leaves the moved milestone dated no earlier
\* than the scheduled milestone of each direct prerequisite of its type, and
\* every pair of its episode that it puts out of order has the moved milestone
\* as the prerequisite and is reported by a warning naming the dependent.
C24_MovedNeverBeforePrerequisite ==
    [][(MoveCalled' /\ last'.result.success) =>
            \A k \in {j \in withId(milestones, last'.id) : onePerType(milestones, milestones[j])} :
                \E before \in {outOfOrder(milestones, milestoneTypes, milestones[k].episodeId)},
                   after \in {outOfOrder(milestones', milestoneTypes', milestones[k].episodeId)},
                   cs \in {listed(last'.result)} :
                    /\ \A pair \in after : pair[2] # k
                    /\ \A pair \in after \ before :
                        /\ pair[1] = k
                        /\ \E c \in 1..Len(cs) :
                            /\ cs[c].severity = "warning"
                            /\ cs[c].affectedMilestones = <<last'.id, milestones[pair[2]].id>>]_vars

C24_Witness ==
    /\ MoveCalled /\ last.result.success /\ last.applied
    /\ \E k \in withId(milestones, last.id) :
        /\ onePerType(milestones, milestones[k])
        /\ \E pair \in outOfOrder(milestones, milestoneTypes, milestones[k].episodeId) :
            pair[1] = k /\ milestones[pair[2]].scheduledDate # None
        /\ \E q \in 1..Len(milestones) :
            /\ milestones[q].episodeId = milestones[k].episodeId
            /\ milestones[q].scheduledDate # None
            /\ milestones[q].scheduledDate[1] <= milestones[k].scheduledDate[1]
            /\ \E a, b \in 1..Len(milestoneTypes) :
                /\ milestoneTypes[a].id = milestones[q].milestoneTypeId
                /\ milestoneTypes[b].id = milestones[k].milestoneTypeId
                /\ Includes(milestoneTypes[b].requiresCompletionOf, milestoneTypes[a].code)

\* C25: no catalog with a dangling prerequisite code gets into the store: in
\* every state, each code a type lists in requiresCompletionOf is the code of a
\* type of the catalog.
C25_EveryPrerequisiteCodeDefined ==
    \A t \in 1..Len(milestoneTypes) :
        \A i \in 1..Len(milestoneTypes[t].requiresCompletionOf) :
            \E u \in 1..Len(milestoneTypes) :
                milestoneTypes[u].code = milestoneTypes[t].requiresCompletionOf[i]

\* C27: a moveMilestone call on a milestone whose milestoneTypeId is the id of
\* no type of the catalog returns success=true with no conflict, whatever the
\* date, and sets the milestone's scheduledDate to the requested date.
C27_UntypedMilestoneMovesFreely ==
    [][MoveCalled' =>
            \A k \in withId(milestones, last'.id) :
                (\A t \in 1..Len(milestoneTypes) :
                        milestoneTypes[t].id # milestones[k].milestoneTypeId) =>
                    /\ last'.result.success /\ last'.result.conflicts = None
                    /\ last'.applied
                    /\ milestones'[k].scheduledDate = last'.date]_vars

C27_Witness ==
    /\ MoveCalled /\ last.result.success /\ last.applied
    /\ last.id = "m-e1-Q" /\ last.date = Some(0)
    /\ \E k \in withId(milestones, last.id) :
        /\ milestones[k].scheduledDate = Some(0)
        /\ \A t \in 1..Len(milestoneTypes) : milestoneTypes[t].id # milestones[k].milestoneTypeId

\* C28: a move that returned success=true is not undone by the refresh of a
\* processCommand that was awaiting the backend: when the step after the move
\* is the settling of the fetchProjectData that processCommand started, by an
\* answer or by a failure, the moved milestone is still in the store with the
\* date the move gave it.
C28_MoveSurvivesRefresh ==
    [][(/\ MoveCalled /\ last.result.success
        /\ last'.op \in {"fetchProjectData.resolved", "fetchProjectData.failed"}
        /\ \E t \in tasks : t.fn = "fetchProjectData" /\ t.caller = "processCommand"
                              /\ tasks' = tasks \ {t}) =>
            /\ withId(milestones', last.id) # {}
            /\ \A k \in withId(milestones', last.id) :
                    milestones'[k].scheduledDate = last.date]_vars

\* the last step was processCommand run in demo mode, on the text last.input
LocalCommand ==
    last.op \in {"processCommand." \o action :
                    action \in {"move", "what_if", "show", "blocking", "late", "list", "unknown"}}

\* C26: in demo mode processCommand applies no move for a text that begins
\* with 'what if' or 'what happens if': it changes no scheduledDate, and it
\* either analyses the text as a what-if or answers success=false.
C26_WhatIfTextNeverMoves ==
    [][LET beginsWhatIf(text) ==
               \E prefix \in {<<"w","h","a","t"," ","i","f">>,
                               <<"w","h","a","t"," ","h","a","p","p","e","n","s"," ","i","f">>} :
                   /\ Len(text) >= Len(prefix)
                   /\ toLowerCase(SubSeq(text, 1, Len(prefix))) = prefix
       IN (LocalCommand' /\ beginsWhatIf(last'.input)) =>
               /\ ~last'.applied
               /\ Len(milestones') = Len(milestones)
               /\ \A k \in 1..Len(milestones) :
                       milestones'[k].scheduledDate = milestones[k].scheduledDate
               /\ last'.op = "processCommand.what_if" \/ ~last'.result.success]_vars

\* C29: in demo mode a command parsed as show, late, blocking, list or unknown
\* leaves milestones, episodes and milestoneTypes as they were; 'show this
\* week' and 'show next week' change of the view only dateRange, a show naming
\* an episode changes only selectedEpisodeId, and late, blocking and every
\* command answered success=false change nothing of the store or the view.
C29_QueriesLeaveTheSchedule ==
    [][LocalCommand' =>
            \E parsed \in {parsedCommands[last'.input]} :
                /\ parsed.action \in {"show", "late", "blocking", "list", "unknown"} =>
                        /\ milestones' = milestones /\ episodes' = episodes
                        /\ milestoneTypes' = milestoneTypes /\ currentProject' = currentProject
                /\ (parsed.action = "show" /\ last'.result.success) =>
                        IF \/ IncludesSub(toLowerCase(parsed.target[1]), <<"t","h","i","s"," ","w","e","e","k">>)
                           \/ IncludesSub(toLowerCase(parsed.target[1]), <<"n","e","x","t"," ","w","e","e","k">>)
                        THEN ui' = [ui EXCEPT !.dateRange = ui'.dateRange]
                        ELSE ui' = [ui EXCEPT !.selectedEpisodeId = ui'.selectedEpisodeId]
                /\ (parsed.action \in {"late", "blocking"} \/ ~last'.result.success) =>
                        /\ ui' = ui
                        /\ milestones' = milestones /\ episodes' = episodes
                        /\ milestoneTypes' = milestoneTypes /\ currentProject' = currentProject]_vars

C29_Witness ==
    /\ last.op = "processCommand.show" /\ last.result.success
    /\ last.input = texts.showNextWeek
    /\ ui.dateRange = [start |-> startOfWeek(now + 7), end |-> endOfWeek(now + 7)]
    /\ ui.selectedEpisodeId # None
    /\ Len(milestones) = DemoEpisodeCount * Len(demoMilestoneTypes)

\* C30: in demo mode processCommand answers every text parseCommand classifies
\* as list with success=false, the message "I didn't understand that" and no
\* conflicts, the answer it gives a text classified as unknown.
C30_ListIsNotUnderstood ==
    LocalCommand =>
        /\ parsedCommands[last.input].action \in {"list", "unknown"} =>
                last.result = Result(FALSE, "I didn't understand that", None)
        /\ parsedCommands[last.input].action = "list" <=> last.op = "processCommand.list"

C30_Witness ==
    /\ last.op = "processCommand.list"
    /\ last.input = texts.listShots
    /\ ~last.result.success
    /\ currentProject = Some(DemoProjectId)

====
